---------------------------- MODULE Spec2Model ----------------------------
(***************************************************************************)
(* A model of the msprime Python extension module (_msprimemodule.c):      *)
(* the dictionary encoding of table collections (asdict / fromdict) and    *)
(* the Simulator object driving the simulation kernel.                     *)
(***************************************************************************)
EXTENDS Integers, Sequences, FiniteSets, TLC

VARIABLES
    ltc,        \* the LightweightTableCollection objects: id -> tsk_table_collection_t
    tlast,      \* the last call on a table collection: what it was given and returned
    generators, \* the RandomGenerator objects: id -> [seed, rng]
    simulators, \* the Simulator objects
    driver,     \* the call being made on the simulators
    signal,     \* the pending-signal flag of the process
    gsl,        \* the GSL error handler of the process and the module's copy of it
    threads,    \* the Python threads calling into the module
    interval_maps \* the IntervalMap objects

tvars == <<ltc, tlast, interval_maps>>
\* The state of the module and of the threads of the process
mvars == <<gsl, threads>>

(***************************************************************************)
(* Python values handed to the extension module.                           *)
(***************************************************************************)

\* numpy type codes of the columns
NPY_FLOAT64 == "f8"
NPY_INT32 == "i4"
NPY_UINT32 == "u4"
NPY_INT8 == "i1"

\* Every Python value is a record of the same fields; v holds the entries of
\* a dictionary or the value of a number.
NoEntries == [none |-> 0]

\* A 1-D numpy array of element type t; `past` is what the memory just
\* behind the array's buffer holds (read when a copy runs off its end).
PyArray(t, data) == [k |-> "array", t |-> t, data |-> data, past |-> 0, v |-> NoEntries]
PyArrayPast(t, data, past) == [k |-> "array", t |-> t, data |-> data, past |-> past, v |-> NoEntries]
\* A 2-D numpy array of rows of shape1 entries each
PyArray2D(t, rows, shape1) ==
    [k |-> "array2d", t |-> t, data |-> <<>>, past |-> 0,
     v |-> [rows |-> rows, shape1 |-> shape1]]
\* Its first dimension; of a 1-D array, the number of entries
Shape0(a) == IF a.k = "array2d" THEN Len(a.v.rows) ELSE Len(a.data)
\* None
Py_None == [k |-> "none", t |-> "", data |-> <<>>, past |-> 0, v |-> NoEntries]
\* A float/int object
PyNumber(x) == [k |-> "number", t |-> "", data |-> <<>>, past |-> 0, v |-> [number |-> x]]
\* An object that is neither a number nor convertible to a 1-D array
PyBad == [k |-> "bad", t |-> "", data |-> <<>>, past |-> 0, v |-> NoEntries]
\* A dictionary as value of a key
PyDict(d) == [k |-> "dict", t |-> "", data |-> <<>>, past |-> 0, v |-> d]

\* The C-level view of an array handed to the tables library: NULL or a buffer
NULL == [null |-> TRUE, data |-> <<>>, past |-> 0]
PyArray_DATA(a) == [null |-> FALSE, data |-> a.data, past |-> a.past]

\* numpy's 'safe' casting rule, applied by PyArray_FROMANY to an array argument
CanCastSafely(from, to) ==
    \/ from = to
    \/ from = NPY_INT8 /\ to \in {NPY_INT32, NPY_FLOAT64}
    \/ from \in {NPY_INT32, NPY_UINT32} /\ to = NPY_FLOAT64

\* PyArray_FROMANY(input, npy_type, 1, 1, NPY_ARRAY_IN_ARRAY) succeeds
PyArray_FROMANY_ok(input, npy_type) ==
    input.k = "array" /\ CanCastSafely(input.t, npy_type)


(***************************************************************************)
(* The tables library (tskit): tables, clear and append_columns.           *)
(* A table is [num_rows, cols]: cols maps a column name to its contents;   *)
(* a ragged column is a packed data column plus an offset column.          *)
(***************************************************************************)

TSK_NULL == -1

\* The first n elements at the address of buffer a (reading on past its end)
TakeN(a, n) == [i \in 1..n |-> IF i <= Len(a.data) THEN a.data[i] ELSE a.past]

\* tskit's check_offsets: offsets[0] = 0 and non-decreasing over the rows
check_offsets(num_rows, o) ==
    LET offs == TakeN(o, num_rows + 1)
    IN  offs[1] = 0 /\ \A j \in 1..num_rows : offs[j] <= offs[j + 1]

\* A fixed-width column after appending num_rows values (NULL: the default)
AppendFixed(col, a, num_rows, dflt) ==
    col \o (IF a.null THEN [i \in 1..num_rows |-> dflt] ELSE TakeN(a, num_rows))

\* A packed data column after appending the rows that the offsets o describe
AppendData(data, a, o, num_rows) ==
    IF a.null THEN data ELSE data \o TakeN(a, TakeN(o, num_rows + 1)[num_rows + 1])

\* The offset column going with it
AppendOffset(data, offset, a, o, num_rows) ==
    offset \o [i \in 1..num_rows |->
                 Len(data) + (IF a.null THEN 0 ELSE TakeN(o, num_rows + 1)[i + 1])]

\* Ragged columns handed to append_columns are well formed (or NULL)
RaggedOk(a, o, num_rows) == a.null \/ check_offsets(num_rows, o)

TSK_ERR_BAD_OFFSET == -200

AppendOk(t) == [err |-> 0, table |-> t]
AppendErr(t) == [err |-> TSK_ERR_BAD_OFFSET, table |-> t]

\* Column names that are offset columns
OffsetCols ==
    {"location_offset", "metadata_offset", "ancestral_state_offset",
     "derived_state_offset", "timestamp_offset", "record_offset"}

\* tsk_<x>_table_clear: no rows, every offset column <<0>>
tsk_table_clear(table) ==
    [num_rows |-> 0,
     cols |-> [c \in DOMAIN table.cols |-> IF c \in OffsetCols THEN <<0>> ELSE <<>>]]

tsk_individual_table_append_columns(table, num_rows, flags, location, location_offset, metadata, metadata_offset) ==
    LET c == table.cols
    IN  IF ~(RaggedOk(location, location_offset, num_rows)
             /\ RaggedOk(metadata, metadata_offset, num_rows))
        THEN AppendErr(table)
        ELSE AppendOk([num_rows |-> table.num_rows + num_rows,
               cols |-> [flags |-> AppendFixed(c["flags"], flags, num_rows, 0),
                 location |-> AppendData(c["location"], location, location_offset, num_rows),
                 location_offset |-> AppendOffset(c["location"], c["location_offset"],
                                                 location, location_offset, num_rows),
                 metadata |-> AppendData(c["metadata"], metadata, metadata_offset, num_rows),
                 metadata_offset |-> AppendOffset(c["metadata"], c["metadata_offset"],
                                                 metadata, metadata_offset, num_rows)]])

tsk_node_table_append_columns(table, num_rows, flags, time, population, individual, metadata, metadata_offset) ==
    LET c == table.cols
    IN  IF ~RaggedOk(metadata, metadata_offset, num_rows)
        THEN AppendErr(table)
        ELSE AppendOk([num_rows |-> table.num_rows + num_rows,
               cols |-> [time |-> AppendFixed(c["time"], time, num_rows, 0),
                 flags |-> AppendFixed(c["flags"], flags, num_rows, 0),
                 population |-> AppendFixed(c["population"], population, num_rows, TSK_NULL),
                 individual |-> AppendFixed(c["individual"], individual, num_rows, TSK_NULL),
                 metadata |-> AppendData(c["metadata"], metadata, metadata_offset, num_rows),
                 metadata_offset |-> AppendOffset(c["metadata"], c["metadata_offset"],
                                                 metadata, metadata_offset, num_rows)]])

tsk_edge_table_append_columns(table, num_rows, left, right, parent, child) ==
    LET c == table.cols
    IN  AppendOk([num_rows |-> table.num_rows + num_rows,
               cols |-> [left |-> AppendFixed(c["left"], left, num_rows, 0),
                 right |-> AppendFixed(c["right"], right, num_rows, 0),
                 parent |-> AppendFixed(c["parent"], parent, num_rows, TSK_NULL),
                 child |-> AppendFixed(c["child"], child, num_rows, TSK_NULL)]])

tsk_migration_table_append_columns(table, num_rows, left, right, node, source, dest, time) ==
    LET c == table.cols
    IN  AppendOk([num_rows |-> table.num_rows + num_rows,
               cols |-> [left |-> AppendFixed(c["left"], left, num_rows, 0),
                 right |-> AppendFixed(c["right"], right, num_rows, 0),
                 node |-> AppendFixed(c["node"], node, num_rows, TSK_NULL),
                 source |-> AppendFixed(c["source"], source, num_rows, TSK_NULL),
                 dest |-> AppendFixed(c["dest"], dest, num_rows, TSK_NULL),
                 time |-> AppendFixed(c["time"], time, num_rows, 0)]])

tsk_site_table_append_columns(table, num_rows, position, ancestral_state, ancestral_state_offset, metadata, metadata_offset) ==
    LET c == table.cols
    IN  IF ~(RaggedOk(ancestral_state, ancestral_state_offset, num_rows)
             /\ RaggedOk(metadata, metadata_offset, num_rows))
        THEN AppendErr(table)
        ELSE AppendOk([num_rows |-> table.num_rows + num_rows,
               cols |-> [position |-> AppendFixed(c["position"], position, num_rows, 0),
                 ancestral_state |-> AppendData(c["ancestral_state"], ancestral_state,
                                                ancestral_state_offset, num_rows),
                 ancestral_state_offset |->
                     AppendOffset(c["ancestral_state"], c["ancestral_state_offset"],
                                  ancestral_state, ancestral_state_offset, num_rows),
                 metadata |-> AppendData(c["metadata"], metadata, metadata_offset, num_rows),
                 metadata_offset |-> AppendOffset(c["metadata"], c["metadata_offset"],
                                                 metadata, metadata_offset, num_rows)]])

tsk_mutation_table_append_columns(table, num_rows, site, node, parent, derived_state, derived_state_offset, metadata, metadata_offset) ==
    LET c == table.cols
    IN  IF ~(RaggedOk(derived_state, derived_state_offset, num_rows)
             /\ RaggedOk(metadata, metadata_offset, num_rows))
        THEN AppendErr(table)
        ELSE AppendOk([num_rows |-> table.num_rows + num_rows,
               cols |-> [site |-> AppendFixed(c["site"], site, num_rows, TSK_NULL),
                 node |-> AppendFixed(c["node"], node, num_rows, TSK_NULL),
                 parent |-> AppendFixed(c["parent"], parent, num_rows, TSK_NULL),
                 derived_state |-> AppendData(c["derived_state"], derived_state,
                                              derived_state_offset, num_rows),
                 derived_state_offset |->
                     AppendOffset(c["derived_state"], c["derived_state_offset"],
                                  derived_state, derived_state_offset, num_rows),
                 metadata |-> AppendData(c["metadata"], metadata, metadata_offset, num_rows),
                 metadata_offset |-> AppendOffset(c["metadata"], c["metadata_offset"],
                                                 metadata, metadata_offset, num_rows)]])

tsk_population_table_append_columns(table, num_rows, metadata, metadata_offset) ==
    LET c == table.cols
    IN  IF ~RaggedOk(metadata, metadata_offset, num_rows)
        THEN AppendErr(table)
        ELSE AppendOk([num_rows |-> table.num_rows + num_rows,
               cols |-> [metadata |-> AppendData(c["metadata"], metadata, metadata_offset, num_rows),
                 metadata_offset |-> AppendOffset(c["metadata"], c["metadata_offset"],
                                                 metadata, metadata_offset, num_rows)]])

tsk_provenance_table_append_columns(table, num_rows, timestamp, timestamp_offset, record, record_offset) ==
    LET c == table.cols
    IN  IF ~(RaggedOk(timestamp, timestamp_offset, num_rows)
             /\ RaggedOk(record, record_offset, num_rows))
        THEN AppendErr(table)
        ELSE AppendOk([num_rows |-> table.num_rows + num_rows,
               cols |-> [timestamp |-> AppendData(c["timestamp"], timestamp,
                                                  timestamp_offset, num_rows),
                 timestamp_offset |-> AppendOffset(c["timestamp"], c["timestamp_offset"],
                                                   timestamp, timestamp_offset, num_rows),
                 record |-> AppendData(c["record"], record, record_offset, num_rows),
                 record_offset |-> AppendOffset(c["record"], c["record_offset"],
                                                record, record_offset, num_rows)]])


(***************************************************************************)
(* General table code: reading the dictionary encoding.                    *)
(***************************************************************************)

Val(x) == [ok |-> TRUE, err |-> "", v |-> x]
Err(e) == [ok |-> FALSE, err |-> e, v |-> Py_None]

\* The value of a key of a dictionary; a required value must not be None
get_table_dict_value(dict, key_str, required) ==
    IF key_str \notin DOMAIN dict THEN Err("ValueError")
    ELSE IF required /\ dict[key_str].k = "none" THEN Err("TypeError")
    ELSE Val(dict[key_str])

\* A column as an array of npy_type; sets num_rows, or checks it
table_read_column_array(input, npy_type, num_rows, check_num_rows) ==
    IF ~PyArray_FROMANY_ok(input, npy_type)
    THEN [ok |-> FALSE, err |-> IF input.k = "array" THEN "TypeError" ELSE "ValueError",
          array |-> input, num_rows |-> num_rows]
    ELSE IF check_num_rows /\ num_rows # Len(input.data)
    THEN [ok |-> FALSE, err |-> "ValueError", array |-> input, num_rows |-> num_rows]
    ELSE [ok |-> TRUE, err |-> "", array |-> input,
          num_rows |-> IF check_num_rows THEN num_rows ELSE Len(input.data)]

\* An offset column for a packed column of `length` entries (the cast of
\* length to uint32_t changes no length below 2^32)
table_read_offset_array(input, num_rows, length, check_num_rows) ==
    LET shape0 == Len(input.data)
        n == IF check_num_rows THEN num_rows ELSE shape0 - 1
    IN  IF ~PyArray_FROMANY_ok(input, NPY_UINT32)
        THEN [ok |-> FALSE, err |-> IF input.k = "array" THEN "TypeError" ELSE "ValueError",
              array |-> input, num_rows |-> num_rows]
        ELSE IF ~check_num_rows /\ shape0 = 0
        THEN [ok |-> FALSE, err |-> "ValueError", array |-> input, num_rows |-> 0]
        ELSE IF shape0 # n + 1
        THEN [ok |-> FALSE, err |-> "ValueError", array |-> input, num_rows |-> n]
        ELSE IF input.data[n + 1] # length
        THEN [ok |-> FALSE, err |-> "ValueError", array |-> input, num_rows |-> n]
        ELSE [ok |-> TRUE, err |-> "", array |-> input, num_rows |-> n]

\* The outcome of one parse_<x>_table_dict call
Fail(e, table) == [ret |-> -1, err |-> e, table |-> table]
Done(table) == [ret |-> 0, err |-> "", table |-> table]

\* A check that is skipped (passes) unless cond holds
When(cond, r) == IF cond THEN [ok |-> r.ok, err |-> r.err] ELSE [ok |-> TRUE, err |-> ""]
Chk(r) == [ok |-> r.ok, err |-> r.err]
\* "x and x_offset must be specified together"
Together(a, b) ==
    IF (a.v.k = "none") # (b.v.k = "none") THEN [ok |-> FALSE, err |-> "TypeError"]
    ELSE [ok |-> TRUE, err |-> ""]

\* The early returns of a function in source order: the first that fails
\* decides; with none failing the table is cleared and the columns appended.
Outcome(table, checks, app) ==
    LET bad == {i \in DOMAIN checks : ~checks[i].ok}
    IN  IF bad # {}
        THEN Fail(checks[CHOOSE i \in bad : \A j \in bad : i <= j].err, table)
        ELSE IF app.err # 0 THEN Fail("LibraryError", app.table)
        ELSE Done(app.table)

Cleared(table, clear_table) == IF clear_table THEN tsk_table_clear(table) ELSE table
DataOrNull(present, r) == IF present THEN PyArray_DATA(r.array) ELSE NULL

parse_individual_table_dict(table, dict, clear_table) ==
    LET flags_input == get_table_dict_value(dict, "flags", TRUE)
        location_input == get_table_dict_value(dict, "location", FALSE)
        location_offset_input == get_table_dict_value(dict, "location_offset", FALSE)
        metadata_input == get_table_dict_value(dict, "metadata", FALSE)
        metadata_offset_input == get_table_dict_value(dict, "metadata_offset", FALSE)
        flags_array == table_read_column_array(flags_input.v, NPY_UINT32, 0, FALSE)
        num_rows == flags_array.num_rows
        has_loc == location_input.v.k # "none"
        location_array == table_read_column_array(location_input.v, NPY_FLOAT64, 0, FALSE)
        location_offset_array == table_read_offset_array(location_offset_input.v,
                                     num_rows, location_array.num_rows, TRUE)
        has_md == metadata_input.v.k # "none"
        metadata_array == table_read_column_array(metadata_input.v, NPY_INT8, 0, FALSE)
        metadata_offset_array == table_read_offset_array(metadata_offset_input.v,
                                     num_rows, metadata_array.num_rows, TRUE)
    IN  Outcome(table,
          << Chk(flags_input), Chk(location_input), Chk(location_offset_input),
             Chk(metadata_input), Chk(metadata_offset_input), Chk(flags_array),
             Together(location_input, location_offset_input),
             When(has_loc, location_array), When(has_loc, location_offset_array),
             Together(metadata_input, metadata_offset_input),
             When(has_md, metadata_array), When(has_md, metadata_offset_array) >>,
          tsk_individual_table_append_columns(Cleared(table, clear_table), num_rows,
             PyArray_DATA(flags_array.array),
             DataOrNull(has_loc, location_array), DataOrNull(has_loc, location_offset_array),
             DataOrNull(has_md, metadata_array), DataOrNull(has_md, metadata_offset_array)))

parse_node_table_dict(table, dict, clear_table) ==
    LET flags_input == get_table_dict_value(dict, "flags", TRUE)
        time_input == get_table_dict_value(dict, "time", TRUE)
        population_input == get_table_dict_value(dict, "population", FALSE)
        individual_input == get_table_dict_value(dict, "individual", FALSE)
        metadata_input == get_table_dict_value(dict, "metadata", FALSE)
        metadata_offset_input == get_table_dict_value(dict, "metadata_offset", FALSE)
        flags_array == table_read_column_array(flags_input.v, NPY_UINT32, 0, FALSE)
        num_rows == flags_array.num_rows
        time_array == table_read_column_array(time_input.v, NPY_FLOAT64, num_rows, TRUE)
        has_pop == population_input.v.k # "none"
        population_array == table_read_column_array(population_input.v, NPY_INT32, num_rows, TRUE)
        has_ind == individual_input.v.k # "none"
        individual_array == table_read_column_array(individual_input.v, NPY_INT32, num_rows, TRUE)
        has_md == metadata_input.v.k # "none"
        metadata_array == table_read_column_array(metadata_input.v, NPY_INT8, 0, FALSE)
        metadata_offset_array == table_read_offset_array(metadata_offset_input.v,
                                     num_rows, metadata_array.num_rows, TRUE)
    IN  Outcome(table,
          << Chk(flags_input), Chk(time_input), Chk(population_input),
             Chk(individual_input), Chk(metadata_input), Chk(metadata_offset_input),
             Chk(flags_array), Chk(time_array),
             When(has_pop, population_array), When(has_ind, individual_array),
             Together(metadata_input, metadata_offset_input),
             When(has_md, metadata_array), When(has_md, metadata_offset_array) >>,
          tsk_node_table_append_columns(Cleared(table, clear_table), num_rows,
             PyArray_DATA(flags_array.array), PyArray_DATA(time_array.array),
             DataOrNull(has_pop, population_array), DataOrNull(has_ind, individual_array),
             DataOrNull(has_md, metadata_array), DataOrNull(has_md, metadata_offset_array)))

parse_edge_table_dict(table, dict, clear_table) ==
    LET left_input == get_table_dict_value(dict, "left", TRUE)
        right_input == get_table_dict_value(dict, "right", TRUE)
        parent_input == get_table_dict_value(dict, "parent", TRUE)
        child_input == get_table_dict_value(dict, "child", TRUE)
        left_array == table_read_column_array(left_input.v, NPY_FLOAT64, 0, FALSE)
        num_rows == left_array.num_rows
        right_array == table_read_column_array(right_input.v, NPY_FLOAT64, num_rows, TRUE)
        parent_array == table_read_column_array(parent_input.v, NPY_INT32, num_rows, TRUE)
        child_array == table_read_column_array(child_input.v, NPY_INT32, num_rows, TRUE)
    IN  Outcome(table,
          << Chk(left_input), Chk(right_input), Chk(parent_input), Chk(child_input),
             Chk(left_array), Chk(right_array), Chk(parent_array), Chk(child_array) >>,
          tsk_edge_table_append_columns(Cleared(table, clear_table), num_rows,
             PyArray_DATA(left_array.array), PyArray_DATA(right_array.array),
             PyArray_DATA(parent_array.array), PyArray_DATA(child_array.array)))

parse_migration_table_dict(table, dict, clear_table) ==
    LET left_input == get_table_dict_value(dict, "left", TRUE)
        right_input == get_table_dict_value(dict, "right", TRUE)
        node_input == get_table_dict_value(dict, "node", TRUE)
        source_input == get_table_dict_value(dict, "source", TRUE)
        dest_input == get_table_dict_value(dict, "dest", TRUE)
        time_input == get_table_dict_value(dict, "time", TRUE)
        left_array == table_read_column_array(left_input.v, NPY_FLOAT64, 0, FALSE)
        num_rows == left_array.num_rows
        right_array == table_read_column_array(right_input.v, NPY_FLOAT64, num_rows, TRUE)
        node_array == table_read_column_array(node_input.v, NPY_INT32, num_rows, TRUE)
        source_array == table_read_column_array(source_input.v, NPY_INT32, num_rows, TRUE)
        dest_array == table_read_column_array(dest_input.v, NPY_INT32, num_rows, TRUE)
        time_array == table_read_column_array(time_input.v, NPY_FLOAT64, num_rows, TRUE)
    IN  Outcome(table,
          << Chk(left_input), Chk(right_input), Chk(node_input), Chk(source_input),
             Chk(dest_input), Chk(time_input), Chk(left_array), Chk(right_array),
             Chk(node_array), Chk(source_array), Chk(dest_array), Chk(time_array) >>,
          tsk_migration_table_append_columns(Cleared(table, clear_table), num_rows,
             PyArray_DATA(left_array.array), PyArray_DATA(right_array.array),
             PyArray_DATA(node_array.array), PyArray_DATA(source_array.array),
             PyArray_DATA(dest_array.array), PyArray_DATA(time_array.array)))

parse_site_table_dict(table, dict, clear_table) ==
    LET position_input == get_table_dict_value(dict, "position", TRUE)
        ancestral_state_input == get_table_dict_value(dict, "ancestral_state", TRUE)
        ancestral_state_offset_input ==
            get_table_dict_value(dict, "ancestral_state_offset", TRUE)
        metadata_input == get_table_dict_value(dict, "metadata", FALSE)
        metadata_offset_input == get_table_dict_value(dict, "metadata_offset", FALSE)
        position_array == table_read_column_array(position_input.v, NPY_FLOAT64, 0, FALSE)
        ancestral_state_array ==
            table_read_column_array(ancestral_state_input.v, NPY_INT8, 0, FALSE)
        ancestral_state_offset_array ==
            table_read_offset_array(ancestral_state_offset_input.v,
                position_array.num_rows, ancestral_state_array.num_rows, TRUE)
        has_md == metadata_input.v.k # "none"
        metadata_array == table_read_column_array(metadata_input.v, NPY_INT8, 0, FALSE)
        metadata_offset_array == table_read_offset_array(metadata_offset_input.v,
                position_array.num_rows, metadata_array.num_rows, FALSE)
        num_rows == IF has_md THEN metadata_offset_array.num_rows
                    ELSE position_array.num_rows
    IN  Outcome(table,
          << Chk(position_input), Chk(ancestral_state_input),
             Chk(ancestral_state_offset_input), Chk(metadata_input),
             Chk(metadata_offset_input), Chk(position_array),
             Chk(ancestral_state_array), Chk(ancestral_state_offset_array),
             Together(metadata_input, metadata_offset_input),
             When(has_md, metadata_array), When(has_md, metadata_offset_array) >>,
          tsk_site_table_append_columns(Cleared(table, clear_table), num_rows,
             PyArray_DATA(position_array.array), PyArray_DATA(ancestral_state_array.array),
             PyArray_DATA(ancestral_state_offset_array.array),
             DataOrNull(has_md, metadata_array), DataOrNull(has_md, metadata_offset_array)))

parse_mutation_table_dict(table, dict, clear_table) ==
    LET site_input == get_table_dict_value(dict, "site", TRUE)
        node_input == get_table_dict_value(dict, "node", TRUE)
        parent_input == get_table_dict_value(dict, "parent", FALSE)
        derived_state_input == get_table_dict_value(dict, "derived_state", TRUE)
        derived_state_offset_input ==
            get_table_dict_value(dict, "derived_state_offset", TRUE)
        metadata_input == get_table_dict_value(dict, "metadata", FALSE)
        metadata_offset_input == get_table_dict_value(dict, "metadata_offset", FALSE)
        site_array == table_read_column_array(site_input.v, NPY_INT32, 0, FALSE)
        derived_state_array ==
            table_read_column_array(derived_state_input.v, NPY_INT8, 0, FALSE)
        derived_state_offset_array ==
            table_read_offset_array(derived_state_offset_input.v,
                site_array.num_rows, derived_state_array.num_rows, TRUE)
        node_array == table_read_column_array(node_input.v, NPY_INT32,
                                              site_array.num_rows, TRUE)
        has_parent == parent_input.v.k # "none"
        parent_array == table_read_column_array(parent_input.v, NPY_INT32,
                                                site_array.num_rows, TRUE)
        has_md == metadata_input.v.k # "none"
        metadata_array == table_read_column_array(metadata_input.v, NPY_INT8, 0, FALSE)
        metadata_offset_array == table_read_offset_array(metadata_offset_input.v,
                site_array.num_rows, metadata_array.num_rows, FALSE)
        num_rows == IF has_md THEN metadata_offset_array.num_rows
                    ELSE site_array.num_rows
    IN  Outcome(table,
          << Chk(site_input), Chk(node_input), Chk(parent_input),
             Chk(derived_state_input), Chk(derived_state_offset_input),
             Chk(metadata_input), Chk(metadata_offset_input), Chk(site_array),
             Chk(derived_state_array), Chk(derived_state_offset_array),
             Chk(node_array), When(has_parent, parent_array),
             Together(metadata_input, metadata_offset_input),
             When(has_md, metadata_array), When(has_md, metadata_offset_array) >>,
          tsk_mutation_table_append_columns(Cleared(table, clear_table), num_rows,
             PyArray_DATA(site_array.array), PyArray_DATA(node_array.array),
             DataOrNull(has_parent, parent_array),
             PyArray_DATA(derived_state_array.array),
             PyArray_DATA(derived_state_offset_array.array),
             DataOrNull(has_md, metadata_array), DataOrNull(has_md, metadata_offset_array)))

parse_population_table_dict(table, dict, clear_table) ==
    LET metadata_input == get_table_dict_value(dict, "metadata", TRUE)
        metadata_offset_input == get_table_dict_value(dict, "metadata_offset", TRUE)
        metadata_array == table_read_column_array(metadata_input.v, NPY_INT8, 0, FALSE)
        metadata_offset_array == table_read_offset_array(metadata_offset_input.v,
                0, metadata_array.num_rows, FALSE)
    IN  Outcome(table,
          << Chk(metadata_input), Chk(metadata_offset_input),
             Chk(metadata_array), Chk(metadata_offset_array) >>,
          tsk_population_table_append_columns(Cleared(table, clear_table),
             metadata_offset_array.num_rows,
             PyArray_DATA(metadata_array.array), PyArray_DATA(metadata_offset_array.array)))

parse_provenance_table_dict(table, dict, clear_table) ==
    LET timestamp_input == get_table_dict_value(dict, "timestamp", TRUE)
        timestamp_offset_input == get_table_dict_value(dict, "timestamp_offset", TRUE)
        record_input == get_table_dict_value(dict, "record", TRUE)
        record_offset_input == get_table_dict_value(dict, "record_offset", TRUE)
        timestamp_array == table_read_column_array(timestamp_input.v, NPY_INT8, 0, FALSE)
        timestamp_offset_array == table_read_offset_array(timestamp_offset_input.v,
                0, timestamp_array.num_rows, FALSE)
        num_rows == timestamp_offset_array.num_rows
        record_array == table_read_column_array(record_input.v, NPY_INT8, 0, FALSE)
        record_offset_array == table_read_offset_array(record_offset_input.v,
                num_rows, record_array.num_rows, TRUE)
    IN  Outcome(table,
          << Chk(timestamp_input), Chk(timestamp_offset_input), Chk(record_input),
             Chk(record_offset_input), Chk(timestamp_array),
             Chk(timestamp_offset_array), Chk(record_array), Chk(record_offset_array) >>,
          tsk_provenance_table_append_columns(Cleared(table, clear_table), num_rows,
             PyArray_DATA(timestamp_array.array), PyArray_DATA(timestamp_offset_array.array),
             PyArray_DATA(record_array.array), PyArray_DATA(record_offset_array.array)))

\* The eight tables in the order parse_table_collection_dict reads them
TableOrder ==
    << "individuals", "nodes", "edges", "migrations",
       "sites", "mutations", "populations", "provenances" >>

ParseTable(name, table, dict) ==
    CASE name = "individuals" -> parse_individual_table_dict(table, dict, TRUE)
      [] name = "nodes" -> parse_node_table_dict(table, dict, TRUE)
      [] name = "edges" -> parse_edge_table_dict(table, dict, TRUE)
      [] name = "migrations" -> parse_migration_table_dict(table, dict, TRUE)
      [] name = "sites" -> parse_site_table_dict(table, dict, TRUE)
      [] name = "mutations" -> parse_mutation_table_dict(table, dict, TRUE)
      [] name = "populations" -> parse_population_table_dict(table, dict, TRUE)
      [] name = "provenances" -> parse_provenance_table_dict(table, dict, TRUE)

\* The tables j.. of the dictionary read into `tables`, stopping at the
\* first that fails (the tables read before it keep their new contents)
RECURSIVE ParseTablesFrom(_, _, _)
ParseTablesFrom(tables, tables_dict, j) ==
    IF j > Len(TableOrder) THEN [ret |-> 0, err |-> "", tables |-> tables]
    ELSE
      LET name == TableOrder[j]
          value == get_table_dict_value(tables_dict, name, TRUE)
          r == ParseTable(name, tables.tables[name], value.v.v)
      IN  IF ~value.ok THEN [ret |-> -1, err |-> value.err, tables |-> tables]
          ELSE IF value.v.k # "dict"
          THEN [ret |-> -1, err |-> "TypeError", tables |-> tables]
          ELSE IF r.ret # 0
          THEN [ret |-> -1, err |-> r.err,
                tables |-> [tables EXCEPT !.tables[name] = r.table]]
          ELSE ParseTablesFrom([tables EXCEPT !.tables[name] = r.table],
                               tables_dict, j + 1)

parse_table_collection_dict(tables, tables_dict) ==
    LET value == get_table_dict_value(tables_dict, "sequence_length", TRUE)
    IN  IF ~value.ok THEN [ret |-> -1, err |-> value.err, tables |-> tables]
        ELSE IF value.v.k # "number"
        THEN [ret |-> -1, err |-> "TypeError", tables |-> tables]
        ELSE ParseTablesFrom([tables EXCEPT !.sequence_length = value.v.v.number],
                             tables_dict, 1)

(***************************************************************************)
(* Writing the dictionary encoding.                                        *)
(***************************************************************************)

Col(name, len, type) == [name |-> name, len |-> len, type |-> type]

\* The columns of each table: name, number of entries, element type
table_descs ==
    [individuals |->
       << Col("flags", "num_rows", NPY_UINT32), Col("location", "length", NPY_FLOAT64),
          Col("location_offset", "num_rows+1", NPY_UINT32),
          Col("metadata", "length", NPY_INT8),
          Col("metadata_offset", "num_rows+1", NPY_UINT32) >>,
     nodes |->
       << Col("time", "num_rows", NPY_FLOAT64), Col("flags", "num_rows", NPY_UINT32),
          Col("population", "num_rows", NPY_INT32), Col("individual", "num_rows", NPY_INT32),
          Col("metadata", "length", NPY_INT8),
          Col("metadata_offset", "num_rows+1", NPY_UINT32) >>,
     edges |->
       << Col("left", "num_rows", NPY_FLOAT64), Col("right", "num_rows", NPY_FLOAT64),
          Col("parent", "num_rows", NPY_INT32), Col("child", "num_rows", NPY_INT32) >>,
     migrations |->
       << Col("left", "num_rows", NPY_FLOAT64), Col("right", "num_rows", NPY_FLOAT64),
          Col("node", "num_rows", NPY_INT32), Col("source", "num_rows", NPY_INT32),
          Col("dest", "num_rows", NPY_INT32), Col("time", "num_rows", NPY_FLOAT64) >>,
     sites |->
       << Col("position", "num_rows", NPY_FLOAT64),
          Col("ancestral_state", "length", NPY_INT8),
          Col("ancestral_state_offset", "num_rows+1", NPY_UINT32),
          Col("metadata", "length", NPY_INT8),
          Col("metadata_offset", "num_rows+1", NPY_UINT32) >>,
     mutations |->
       << Col("site", "num_rows", NPY_INT32), Col("node", "num_rows", NPY_INT32),
          Col("parent", "num_rows", NPY_INT32),
          Col("derived_state", "length", NPY_INT8),
          Col("derived_state_offset", "num_rows+1", NPY_UINT32),
          Col("metadata", "length", NPY_INT8),
          Col("metadata_offset", "num_rows+1", NPY_UINT32) >>,
     populations |->
       << Col("metadata", "length", NPY_INT8),
          Col("metadata_offset", "num_rows+1", NPY_UINT32) >>,
     provenances |->
       << Col("timestamp", "length", NPY_INT8),
          Col("timestamp_offset", "num_rows+1", NPY_UINT32),
          Col("record", "length", NPY_INT8),
          Col("record_offset", "num_rows+1", NPY_UINT32) >>]

\* A variant that sizes a packed column by the rows of its table
ColNumRows_m(table, col) ==
    IF col.len = "num_rows+1" THEN table.num_rows + 1 ELSE table.num_rows

\* The number of entries write_table_arrays gives a column's array
ColNumRows(table, col) ==
    CASE col.len = "num_rows" -> table.num_rows
      [] col.len = "num_rows+1" -> table.num_rows + 1
      [] col.len = "length" -> Len(table.cols[col.name])

\* PyArray_SimpleNewFromData: an array over the first n entries of a column
PyArray_SimpleNewFromData(n, type, data) ==
    PyArray(type, [i \in 1..n |-> IF i <= Len(data) THEN data[i] ELSE 0])

\* One dictionary of arrays per table
write_table_arrays(tables) ==
    [name \in DOMAIN table_descs |->
       LET cols == table_descs[name]
           table == tables.tables[name]
       IN  PyDict([c \in {cols[i].name : i \in DOMAIN cols} |->
             LET col == cols[CHOOSE i \in DOMAIN cols : cols[i].name = c]
             IN  PyArray_SimpleNewFromData(ColNumRows(table, col), col.type,
                                           table.cols[col.name])])]

\* The dictionary encoding of a table collection
dump_tables_dict(tables) ==
    LET arrays == write_table_arrays(tables)
    IN  [key \in {"sequence_length"} \cup DOMAIN arrays |->
           IF key = "sequence_length" THEN PyNumber(tables.sequence_length)
           ELSE arrays[key]]

(***************************************************************************)
(* LightweightTableCollection                                              *)
(***************************************************************************)

\* tsk_table_collection_init: eight empty tables
tsk_table_collection_init ==
    [name \in DOMAIN table_descs |->
       tsk_table_clear([num_rows |-> 0,
          cols |-> [c \in {table_descs[name][i].name : i \in DOMAIN table_descs[name]}
                      |-> <<>>]])]

LightweightTableCollection_init(sequence_length) ==
    [sequence_length |-> sequence_length, tables |-> tsk_table_collection_init]

LightweightTableCollection_asdict(self) == dump_tables_dict(self)

LightweightTableCollection_fromdict(self, dict) ==
    parse_table_collection_dict(self, dict)

(***************************************************************************)
(* Dictionaries handed to fromdict: two well-formed encodings and the      *)
(* encodings that differ from the first in one column or one table.        *)
(***************************************************************************)

Dict1 ==
    [sequence_length |-> PyNumber(10),
     individuals |-> PyDict(
       [flags |-> PyArray(NPY_UINT32, <<0>>),
        location |-> PyArray(NPY_FLOAT64, <<1, 2>>),
        location_offset |-> PyArray(NPY_UINT32, <<0, 2>>),
        metadata |-> PyArray(NPY_INT8, <<7>>),
        metadata_offset |-> PyArray(NPY_UINT32, <<0, 1>>)]),
     nodes |-> PyDict(
       [time |-> PyArray(NPY_FLOAT64, <<0, 0, 3>>),
        flags |-> PyArray(NPY_UINT32, <<1, 1, 0>>),
        population |-> PyArray(NPY_INT32, <<0, 0, -1>>),
        individual |-> PyArray(NPY_INT32, <<0, -1, -1>>),
        metadata |-> PyArray(NPY_INT8, <<5, -6>>),
        metadata_offset |-> PyArray(NPY_UINT32, <<0, 1, 1, 2>>)]),
     edges |-> PyDict(
       [left |-> PyArray(NPY_FLOAT64, <<0, 0>>),
        right |-> PyArray(NPY_FLOAT64, <<10, 10>>),
        parent |-> PyArray(NPY_INT32, <<2, 2>>),
        child |-> PyArray(NPY_INT32, <<0, 1>>)]),
     migrations |-> PyDict(
       [left |-> PyArray(NPY_FLOAT64, <<0>>),
        right |-> PyArray(NPY_FLOAT64, <<10>>),
        node |-> PyArray(NPY_INT32, <<1>>),
        source |-> PyArray(NPY_INT32, <<0>>),
        dest |-> PyArray(NPY_INT32, <<1>>),
        time |-> PyArray(NPY_FLOAT64, <<2>>)]),
     sites |-> PyDict(
       [position |-> PyArray(NPY_FLOAT64, <<2, 5>>),
        ancestral_state |-> PyArray(NPY_INT8, <<48, 49>>),
        ancestral_state_offset |-> PyArray(NPY_UINT32, <<0, 1, 2>>),
        metadata |-> PyArray(NPY_INT8, <<>>),
        metadata_offset |-> PyArray(NPY_UINT32, <<0, 0, 0>>)]),
     mutations |-> PyDict(
       [site |-> PyArray(NPY_INT32, <<0, 1>>),
        node |-> PyArray(NPY_INT32, <<0, 1>>),
        parent |-> PyArray(NPY_INT32, <<-1, -1>>),
        derived_state |-> PyArray(NPY_INT8, <<49, 50>>),
        derived_state_offset |-> PyArray(NPY_UINT32, <<0, 1, 2>>),
        metadata |-> PyArray(NPY_INT8, <<9>>),
        metadata_offset |-> PyArray(NPY_UINT32, <<0, 0, 1>>)]),
     populations |-> PyDict(
       [metadata |-> PyArray(NPY_INT8, <<3, 4>>),
        metadata_offset |-> PyArray(NPY_UINT32, <<0, 1, 2>>)]),
     provenances |-> PyDict(
       [timestamp |-> PyArray(NPY_INT8, <<1, 2>>),
        timestamp_offset |-> PyArray(NPY_UINT32, <<0, 2>>),
        record |-> PyArray(NPY_INT8, <<4>>),
        record_offset |-> PyArray(NPY_UINT32, <<0, 1>>)])]

\* A second encoding: optional columns left out (None), other row counts
Dict2 ==
    [sequence_length |-> PyNumber(4),
     individuals |-> PyDict(
       [flags |-> PyArray(NPY_UINT32, <<1, 0>>),
        location |-> Py_None, location_offset |-> Py_None,
        metadata |-> Py_None, metadata_offset |-> Py_None]),
     nodes |-> PyDict(
       [time |-> PyArray(NPY_FLOAT64, <<0, 1>>),
        flags |-> PyArray(NPY_UINT32, <<1, 0>>),
        population |-> Py_None, individual |-> Py_None,
        metadata |-> Py_None, metadata_offset |-> Py_None]),
     edges |-> PyDict(
       [left |-> PyArray(NPY_FLOAT64, <<0>>),
        right |-> PyArray(NPY_FLOAT64, <<4>>),
        parent |-> PyArray(NPY_INT32, <<1>>),
        child |-> PyArray(NPY_INT32, <<0>>)]),
     migrations |-> PyDict(
       [left |-> PyArray(NPY_FLOAT64, <<>>),
        right |-> PyArray(NPY_FLOAT64, <<>>),
        node |-> PyArray(NPY_INT32, <<>>),
        source |-> PyArray(NPY_INT32, <<>>),
        dest |-> PyArray(NPY_INT32, <<>>),
        time |-> PyArray(NPY_FLOAT64, <<>>)]),
     sites |-> PyDict(
       [position |-> PyArray(NPY_FLOAT64, <<1>>),
        ancestral_state |-> PyArray(NPY_INT8, <<65, 67>>),
        ancestral_state_offset |-> PyArray(NPY_UINT32, <<0, 2>>),
        metadata |-> Py_None, metadata_offset |-> Py_None]),
     mutations |-> PyDict(
       [site |-> PyArray(NPY_INT32, <<0>>),
        node |-> PyArray(NPY_INT32, <<0>>),
        parent |-> Py_None,
        derived_state |-> PyArray(NPY_INT8, <<71>>),
        derived_state_offset |-> PyArray(NPY_UINT32, <<0, 1>>),
        metadata |-> Py_None, metadata_offset |-> Py_None]),
     populations |-> PyDict(
       [metadata |-> PyArray(NPY_INT8, <<>>),
        metadata_offset |-> PyArray(NPY_UINT32, <<0>>)]),
     provenances |-> PyDict(
       [timestamp |-> PyArray(NPY_INT8, <<>>),
        timestamp_offset |-> PyArray(NPY_UINT32, <<0>>),
        record |-> PyArray(NPY_INT8, <<>>),
        record_offset |-> PyArray(NPY_UINT32, <<0>>)])]

\* Dictionary d with column col of table tbl set to val / left out
WithCol(d, tbl, col, val) ==
    [d EXCEPT ![tbl] = PyDict([d[tbl].v EXCEPT ![col] = val])]
WithoutCol(d, tbl, col) ==
    [d EXCEPT ![tbl] = PyDict([c \in (DOMAIN d[tbl].v) \ {col} |-> d[tbl].v[c]])]

\* Changed versions of an array: an entry added, an entry dropped, an inner
\* entry raised above the last; of a uint32 array also: the first entry
\* raised, another element type, an object that is no array
ArrayChanges(a) ==
    LET n == Len(a.data)
    IN  {PyArray(a.t, a.data \o <<1>>)}
        \cup (IF a.t = NPY_UINT32 THEN {PyArray(NPY_FLOAT64, a.data), PyBad} ELSE {})
        \cup (IF n >= 1 THEN {PyArray(a.t, SubSeq(a.data, 1, n - 1))} ELSE {})
        \cup (IF n >= 1 /\ a.t = NPY_UINT32
              THEN {PyArray(a.t, [a.data EXCEPT ![1] = 1])} ELSE {})
        \cup (IF n >= 3 THEN {PyArray(a.t, [a.data EXCEPT ![2] = a.data[n] + 1])}
              ELSE {})

\* The encodings differing from d in one column, or in one whole table
ChangedDicts(d) ==
    UNION { UNION {
      {WithoutCol(d, tbl, col), WithCol(d, tbl, col, Py_None)}
      \cup {WithCol(d, tbl, col, a) : a \in ArrayChanges(d[tbl].v[col])}
      : col \in DOMAIN d[tbl].v } : tbl \in DOMAIN table_descs }
    \cup {[k \in (DOMAIN d) \ {key} |-> d[k]] : key \in DOMAIN d}
    \cup {[d EXCEPT ![key] = PyBad] : key \in DOMAIN d}

InputDicts == {Dict1, Dict2} \cup ChangedDicts(Dict1)

(***************************************************************************)
(* The random generator library (GSL).  A linear congruential generator    *)
(* with sixteen states stands for gsl_rng_default: seeding fixes the       *)
(* state, every draw replaces the state and returns it.                    *)
(***************************************************************************)

RngModulus == 16
gsl_rng_set(seed) == seed % RngModulus
gsl_rng_get(rng) == (5 * rng + 3) % RngModulus

(***************************************************************************)
(* The simulation kernel.  Times are integers; there is one locus, so a    *)
(* lineage is one segment: [node, population].  The kernel keeps what it   *)
(* was configured with, the per-replicate state, and two logs read by the  *)
(* properties only: `applied`, the list positions of the demographic       *)
(* events applied in this replicate, and `iterations`, one record per      *)
(* iteration of the event loop made by the last msp_run call.              *)
(***************************************************************************)

\* Exit statuses of msp_run (>= 0) and error codes (< 0)
MSP_EXIT_COALESCENCE == 0
MSP_EXIT_MAX_EVENTS == 1
MSP_EXIT_MAX_TIME == 2
MSP_ERR_BAD_PARAM_VALUE == -4
MSP_ERR_INFINITE_WAITING_TIME == -47

\* The largest double: the time of "never"
DBL_MAX == 1000000
\* Not-a-number: no comparison with it holds
GSL_NAN == -1000000

\* Largest waiting time a draw can give
MaxDelta == 1

\* The k-th smallest (k = 0, 1, ..) member of a set of integers
Nth(S, k) == CHOOSE x \in S : Cardinality({y \in S : y < x}) = k

RemoveAt(s, i) == SubSeq(s, 1, i - 1) \o SubSeq(s, i + 1, Len(s))

\* A kernel after msp_alloc: nothing configured, one population
msp_alloc(samples, rng) ==
    [rng |-> rng, samples |-> samples, num_populations |-> 1,
     initial_populations |-> << [initial_size |-> 1, growth_rate |-> 0, start_time |-> 0] >>,
     initial_migration_matrix |-> <<0>>,
     demographic_events |-> <<>>, store_migrations |-> FALSE, start_time |-> 0,
     initialised |-> FALSE,
     model |-> [type |-> "hudson", reference_size |-> 1, params |-> <<>>],
     pedigree |-> <<>>,
     time |-> 0, lineages |-> <<>>, populations |-> <<>>, migration_matrix |-> <<>>,
     next_demographic_event |-> 1,
     nodes |-> <<>>, edges |-> <<>>, migrations |-> <<>>,
     num_ca_events |-> 0, num_migration_events |-> <<>>,
     applied |-> <<>>, iterations |-> <<>>]

Ok(msp) == [err |-> 0, msp |-> msp]
Bad(err, msp) == [err |-> err, msp |-> msp]

msp_set_start_time(msp, start_time) ==
    IF start_time < 0 THEN Bad(MSP_ERR_BAD_PARAM_VALUE, msp)
    ELSE Ok([msp EXCEPT !.start_time = start_time])

\* The parameters psi, c, alpha and truncation_point of the models are
\* counted in halves: ONE stands for 1.0
ONE == 2

\* The model of the given type becomes the model of the simulator
msp_set_simulation_model(msp, type, reference_size, params) ==
    IF reference_size <= 0 THEN Bad(MSP_ERR_BAD_PARAM_VALUE, msp)
    ELSE Ok([msp EXCEPT !.model =
               [type |-> type, reference_size |-> reference_size, params |-> params]])

msp_set_simulation_model_dirac(msp, reference_size, psi, c) ==
    IF psi <= 0 \/ psi >= ONE \/ c < 0 THEN Bad(MSP_ERR_BAD_PARAM_VALUE, msp)
    ELSE msp_set_simulation_model(msp, "dirac", reference_size, [psi |-> psi, c |-> c])

msp_set_simulation_model_beta(msp, reference_size, alpha, truncation_point) ==
    IF alpha <= ONE \/ alpha >= 2 * ONE \/ truncation_point <= 0 \/ truncation_point > ONE
    THEN Bad(MSP_ERR_BAD_PARAM_VALUE, msp)
    ELSE msp_set_simulation_model(msp, "beta", reference_size,
           [alpha |-> alpha, truncation_point |-> truncation_point])

\* Of the sweep only the locus is kept
msp_set_simulation_model_sweep_genic_selection(msp, reference_size, position) ==
    msp_set_simulation_model(msp, "sweep_genic_selection", reference_size,
      [locus |-> position])

msp_get_model(msp) == msp.model

\* Room for a pedigree of num_inds individuals, then the pedigree itself
msp_alloc_pedigree(msp, num_inds, ploidy) ==
    Ok([msp EXCEPT !.pedigree = <<[num_inds |-> num_inds, ploidy |-> ploidy]>>])

msp_set_pedigree(msp, num_inds, inds, parents, times, is_sample) ==
    Ok([msp EXCEPT !.pedigree =
          <<[num_inds |-> num_inds, ploidy |-> msp.pedigree[1].ploidy, inds |-> inds,
             parents |-> parents, times |-> times, is_sample |-> is_sample]>>])
msp_get_model_name(msp) == msp.model.type

msp_set_store_migrations(msp, store_migrations) ==
    Ok([msp EXCEPT !.store_migrations = store_migrations])

msp_set_dimensions(msp, num_populations, num_labels) ==
    IF num_populations < 1 \/ num_labels < 1 THEN Bad(MSP_ERR_BAD_PARAM_VALUE, msp)
    ELSE Ok([msp EXCEPT
           !.num_populations = num_populations,
           !.initial_populations =
              [j \in 1..num_populations |->
                 [initial_size |-> 1, growth_rate |-> 0, start_time |-> 0]],
           !.initial_migration_matrix = [j \in 1..(num_populations * num_populations) |-> 0]])

msp_get_num_populations(msp) == msp.num_populations

msp_set_population_configuration(msp, j, initial_size, growth_rate) ==
    IF j < 0 \/ j >= msp.num_populations \/ initial_size <= 0
    THEN Bad(MSP_ERR_BAD_PARAM_VALUE, msp)
    ELSE Ok([msp EXCEPT !.initial_populations[j + 1] =
                          [initial_size |-> initial_size, growth_rate |-> growth_rate,
                           start_time |-> 0]])

msp_set_migration_matrix(msp, size, migration_matrix) ==
    IF size # msp.num_populations * msp.num_populations
       \/ \E j \in 1..size : migration_matrix[j] < 0
    THEN Bad(MSP_ERR_BAD_PARAM_VALUE, msp)
    ELSE Ok([msp EXCEPT !.initial_migration_matrix = migration_matrix])

\* The demographic queue is ordered by time; an event goes behind the queued
\* events that are not later than it
msp_add_demographic_event(msp, event) ==
    LET q == msp.demographic_events
        before == Cardinality({k \in DOMAIN q : q[k].time <= event.time})
    IN  IF event.time < 0 THEN Bad(MSP_ERR_BAD_PARAM_VALUE, msp)
        ELSE Ok([msp EXCEPT !.demographic_events =
                   SubSeq(q, 1, before) \o <<event>> \o SubSeq(q, before + 1, Len(q))])

ValidPopulation(msp, p) == p >= 0 /\ p < msp.num_populations

\* `idx` is the position in the caller's list, kept to tell the events apart
msp_add_population_parameters_change(msp, time, population_id, initial_size, growth_rate, idx) ==
    IF ~(population_id = -1 \/ ValidPopulation(msp, population_id))
       \/ (initial_size # GSL_NAN /\ initial_size <= 0)
    THEN Bad(MSP_ERR_BAD_PARAM_VALUE, msp)
    ELSE msp_add_demographic_event(msp,
           [type |-> "population_parameters_change", time |-> time, idx |-> idx,
            args |-> <<population_id>>, size |-> <<initial_size, growth_rate>>])

msp_add_migration_rate_change(msp, time, matrix_index, migration_rate, idx) ==
    LET N == msp.num_populations
    IN  IF ~(matrix_index = -1
             \/ (matrix_index >= 0 /\ matrix_index < N * N
                 /\ matrix_index \div N # matrix_index % N))
           \/ migration_rate < 0
        THEN Bad(MSP_ERR_BAD_PARAM_VALUE, msp)
        ELSE msp_add_demographic_event(msp,
               [type |-> "migration_rate_change", time |-> time, idx |-> idx,
                args |-> <<matrix_index, migration_rate>>, size |-> <<>>])

msp_add_mass_migration(msp, time, source, dest, proportion, idx) ==
    IF ~ValidPopulation(msp, source) \/ ~ValidPopulation(msp, dest) \/ source = dest
       \/ proportion < 0 \/ proportion > 1
    THEN Bad(MSP_ERR_BAD_PARAM_VALUE, msp)
    ELSE msp_add_demographic_event(msp,
           [type |-> "mass_migration", time |-> time, idx |-> idx,
            args |-> <<source, dest, proportion>>, size |-> <<>>])

\* The bottlenecks and the census are queued like the other events; what
\* they do to the lineages when they are applied is not modelled
msp_add_simple_bottleneck(msp, time, population_id, proportion, idx) ==
    IF ~ValidPopulation(msp, population_id) \/ proportion < 0 \/ proportion > 1
    THEN Bad(MSP_ERR_BAD_PARAM_VALUE, msp)
    ELSE msp_add_demographic_event(msp,
           [type |-> "simple_bottleneck", time |-> time, idx |-> idx,
            args |-> <<population_id, proportion>>, size |-> <<>>])

msp_add_instantaneous_bottleneck(msp, time, population_id, strength, idx) ==
    IF ~ValidPopulation(msp, population_id) \/ strength < 0
    THEN Bad(MSP_ERR_BAD_PARAM_VALUE, msp)
    ELSE msp_add_demographic_event(msp,
           [type |-> "instantaneous_bottleneck", time |-> time, idx |-> idx,
            args |-> <<population_id, strength>>, size |-> <<>>])

msp_add_census_event(msp, time, idx) ==
    msp_add_demographic_event(msp,
      [type |-> "census_event", time |-> time, idx |-> idx,
       args |-> <<>>, size |-> <<>>])

\* The length of the sequence the recombination map covers
SequenceLength == 3

\* An ancestral segment: the interval [left, right) descends from node value
Segment(left, right, value) == [left |-> left, right |-> right, value |-> value]

\* The per-replicate state at the start of a replicate: the clock at the
\* start time, one lineage (a chain of one segment that covers the whole
\* sequence) and one node per sample, nothing recorded,
\* the whole demographic queue pending, the configured demography
msp_reset(msp) ==
    Ok([msp EXCEPT
      !.time = msp.start_time,
      !.lineages = [j \in DOMAIN msp.samples |->
                      [node |-> j - 1, population |-> msp.samples[j].population,
                       segments |-> <<Segment(0, SequenceLength, j - 1)>>]],
      !.populations = msp.initial_populations,
      !.migration_matrix = msp.initial_migration_matrix,
      !.next_demographic_event = 1,
      !.nodes = [j \in DOMAIN msp.samples |->
                   [time |-> msp.samples[j].time,
                    population |-> msp.samples[j].population, flags |-> 1]],
      !.edges = <<>>, !.migrations = <<>>,
      !.num_ca_events = 0,
      !.num_migration_events =
          [j \in 1..(msp.num_populations * msp.num_populations) |-> 0],
      !.applied = <<>>, !.iterations = <<>>])

msp_initialise(msp) ==
    IF Len(msp.samples) < 2 THEN Bad(MSP_ERR_BAD_PARAM_VALUE, msp)
    ELSE msp_reset([msp EXCEPT !.initialised = TRUE])

msp_get_time(msp) == msp.time
msp_get_num_ancestors(msp) == Len(msp.lineages)

(***************************************************************************)
(* The event loop.                                                         *)
(***************************************************************************)

LineagesIn(msp, p) == {j \in DOMAIN msp.lineages : msp.lineages[j].population = p}

\* The stochastic events that have a positive rate: a coalescence in a
\* population of two or more lineages, a migration along a positive entry
\* of the migration matrix out of a population that has a lineage
CoalescencePopulations(msp) ==
    {p \in 0..(msp.num_populations - 1) : Cardinality(LineagesIn(msp, p)) >= 2}
MigrationEntries(msp) ==
    {m \in 0..(msp.num_populations * msp.num_populations - 1) :
       /\ m \div msp.num_populations # m % msp.num_populations
       /\ msp.migration_matrix[m + 1] > 0
       /\ LineagesIn(msp, m \div msp.num_populations) # {}}

\* The time of the next pending demographic event
NextDemographicTime(msp) ==
    IF msp.next_demographic_event > Len(msp.demographic_events) THEN DBL_MAX
    ELSE msp.demographic_events[msp.next_demographic_event].time

\* The chain two chains x and y merge into: both are walked from the left;
\* where they overlap the merged chain descends from node, elsewhere the
\* segment is handed over as it is
RECURSIVE msp_merge_ancestors(_, _, _)
msp_merge_ancestors(x, y, node) ==
    IF x = <<>> THEN y
    ELSE IF y = <<>> THEN x
    ELSE LET a == IF Head(x).left <= Head(y).left THEN x ELSE y
             b == IF Head(x).left <= Head(y).left THEN y ELSE x
             r == IF Head(a).right <= Head(b).right THEN Head(a).right ELSE Head(b).right
             after(c) == IF Head(c).right > r
                         THEN <<[Head(c) EXCEPT !.left = r]>> \o Tail(c) ELSE Tail(c)
         IN  IF Head(a).right <= Head(b).left
             THEN <<Head(a)>> \o msp_merge_ancestors(Tail(a), b, node)
             ELSE IF Head(a).left < Head(b).left
             THEN <<[Head(a) EXCEPT !.right = Head(b).left]>> \o msp_merge_ancestors(
                      <<[Head(a) EXCEPT !.left = Head(b).left]>> \o Tail(a), b, node)
             ELSE <<Segment(Head(a).left, r, node)>>
                      \o msp_merge_ancestors(after(a), after(b), node)

\* Two lineages of population p merge; the new node is made when the two
\* chains overlap
msp_common_ancestor_event(msp, p, u) ==
    LET L == LineagesIn(msp, p)
        k == Cardinality(L)
        a == Nth(L, u % k)
        b == Nth(L, ((u % k) + 1) % k)
        node == Len(msp.nodes)
        rest == IF a < b THEN RemoveAt(RemoveAt(msp.lineages, b), a)
                ELSE RemoveAt(RemoveAt(msp.lineages, a), b)
        merged == msp_merge_ancestors(msp.lineages[a].segments,
                                      msp.lineages[b].segments, node)
        overlap == \E j \in DOMAIN merged : merged[j].value = node
    IN  [msp EXCEPT
          !.nodes = IF overlap
                    THEN Append(@, [time |-> msp.time, population |-> p, flags |-> 0])
                    ELSE @,
          !.edges = IF overlap
                    THEN @ \o << [parent |-> node, child |-> msp.lineages[a].node],
                                 [parent |-> node, child |-> msp.lineages[b].node] >>
                    ELSE @,
          !.lineages = Append(rest, [node |-> merged[1].value, population |-> p,
                                     segments |-> merged]),
          !.num_ca_events = @ + 1]

\* The two chains a chain is split into at position x: the segment that x
\* falls strictly inside is cut in two, and the chain is parted at the
\* first segment that starts at x or after it
RECURSIVE msp_split_chain(_, _)
msp_split_chain(chain, x) ==
    IF chain = <<>> THEN [lhs |-> <<>>, rhs |-> <<>>]
    ELSE IF Head(chain).left >= x THEN [lhs |-> <<>>, rhs |-> chain]
    ELSE IF Head(chain).right > x
    THEN [lhs |-> <<[Head(chain) EXCEPT !.right = x]>>,
          rhs |-> <<[Head(chain) EXCEPT !.left = x]>> \o Tail(chain)]
    ELSE [lhs |-> <<Head(chain)>> \o msp_split_chain(Tail(chain), x).lhs,
          rhs |-> msp_split_chain(Tail(chain), x).rhs]

\* The positions at which the chain can break: those strictly between its
\* two ends
Breakpoints(chain) ==
    {x \in 1..(SequenceLength - 1) : chain[1].left < x /\ x < chain[Len(chain)].right}

\* Lineage j recombines at position x: both halves are lineages of the
\* population of j
msp_recombination_event(msp, j, x) ==
    LET halves == msp_split_chain(msp.lineages[j].segments, x)
    IN  [msp EXCEPT
          !.lineages = Append([@ EXCEPT ![j].segments = halves.lhs],
                              [node |-> halves.rhs[1].value,
                               population |-> msp.lineages[j].population,
                               segments |-> halves.rhs])]

\* The chains of the extant lineages; every segment of a chain is in the
\* population of its lineage
msp_get_ancestors(msp) ==
    [j \in DOMAIN msp.lineages |->
       [k \in DOMAIN msp.lineages[j].segments |->
          [left |-> msp.lineages[j].segments[k].left,
           right |-> msp.lineages[j].segments[k].right,
           value |-> msp.lineages[j].segments[k].value,
           population_id |-> msp.lineages[j].population]]]

\* Lineage j moves to population dest
msp_move_individual(msp, j, dest) ==
    [msp EXCEPT
      !.lineages[j].population = dest,
      !.migrations = IF msp.store_migrations
                     THEN Append(@, [node |-> msp.lineages[j].node,
                                     source |-> msp.lineages[j].population,
                                     dest |-> dest, time |-> msp.time])
                     ELSE @]

\* A lineage migrates along entry m of the migration matrix
msp_migration_event(msp, m, u) ==
    LET source == m \div msp.num_populations
        L == LineagesIn(msp, source)
        j == Nth(L, u % Cardinality(L))
    IN  [msp_move_individual(msp, j, m % msp.num_populations) EXCEPT
          !.num_migration_events[m + 1] = @ + 1]

RECURSIVE MoveAll(_, _, _)
MoveAll(msp, L, dest) ==
    IF L = {} THEN msp
    ELSE LET j == CHOOSE x \in L : \A y \in L : x <= y
         IN  MoveAll(msp_move_individual(msp, j, dest), L \ {j}, dest)

\* The exponential, on the integers: two to the power n
RECURSIVE Exp(_)
Exp(n) == IF n <= 0 THEN 1 ELSE 2 * Exp(n - 1)

\* The size of a population at time t:
\* initial_size * exp(-growth_rate * (t - start_time))
PopulationSize(pop, t) ==
    IF pop.growth_rate * (t - pop.start_time) <= 0
    THEN pop.initial_size * Exp(-(pop.growth_rate * (t - pop.start_time)))
    ELSE pop.initial_size \div Exp(pop.growth_rate * (t - pop.start_time))

msp_compute_population_size(msp, population_id, time) ==
    IF ~ValidPopulation(msp, population_id) THEN [err |-> MSP_ERR_BAD_PARAM_VALUE, size |-> 0]
    ELSE [err |-> 0, size |-> PopulationSize(msp.populations[population_id + 1], time)]

\* A population after a change of its parameters at time t: a size that is
\* not given is the size the population has reached at t, a growth rate
\* that is not given stays, and the population's size is reckoned from t
msp_change_single_population_parameters(pop, t, initial_size, growth_rate) ==
    [initial_size |-> IF initial_size = GSL_NAN THEN PopulationSize(pop, t) ELSE initial_size,
     growth_rate |-> IF growth_rate = GSL_NAN THEN pop.growth_rate ELSE growth_rate,
     start_time |-> t]

\* The effect of a demographic event on the state
ApplyDemographicEvent(msp, event) ==
    CASE event.type = "population_parameters_change" ->
           [msp EXCEPT !.populations =
              [j \in DOMAIN @ |->
                 IF event.args[1] = -1 \/ event.args[1] = j - 1
                 THEN msp_change_single_population_parameters(@[j], msp.time,
                          event.size[1], event.size[2])
                 ELSE @[j]]]
      [] event.type = "migration_rate_change" ->
           [msp EXCEPT !.migration_matrix =
              [m \in DOMAIN @ |->
                 IF event.args[1] = m - 1
                    \/ (event.args[1] = -1
                        /\ (m - 1) \div msp.num_populations # (m - 1) % msp.num_populations)
                 THEN event.args[2] ELSE @[m]]]
      [] event.type = "mass_migration" ->
           IF event.args[3] = 1
           THEN MoveAll(msp, LineagesIn(msp, event.args[1]), event.args[2])
           ELSE msp

\* A variant that takes the waiting time for the clock
AdvanceClock_m(time, dt) == dt
\* The clock after a waiting time
AdvanceClock(time, dt) == time + dt

\* A variant that lets the stochastic event win a tie
DemographicFirst_m(t_next, t_demo) == t_next > t_demo
\* The next demographic event comes before the stochastic event drawn
DemographicFirst(t_next, t_demo) == t_next >= t_demo

\* The next pending demographic event is applied at its time
msp_apply_demographic_events(msp) ==
    LET event == msp.demographic_events[msp.next_demographic_event]
    IN  [ApplyDemographicEvent([msp EXCEPT !.time = event.time], event) EXCEPT
          !.next_demographic_event = @ + 1,
          !.applied = Append(@, event.idx)]

\* One iteration of the event loop: the waiting time and the kind of the
\* next stochastic event are drawn, then either the pending demographic
\* event or the stochastic event is applied
msp_run_iteration(msp, rng) ==
    LET ca == CoalescencePopulations(msp)
        mig == MigrationEntries(msp)
        n == Cardinality(ca) + Cardinality(mig)
        u == gsl_rng_get(rng)
        dt == IF n = 0 THEN DBL_MAX ELSE u % (MaxDelta + 1)
        c == (u \div (MaxDelta + 1)) % n
        t_demo == NextDemographicTime(msp)
    IN  IF n = 0 /\ t_demo = DBL_MAX
        THEN [err |-> MSP_ERR_INFINITE_WAITING_TIME, msp |-> msp, rng |-> rng, dt |-> dt]
        ELSE IF n = 0 \/ (t_demo # DBL_MAX
                          /\ DemographicFirst(AdvanceClock(msp.time, dt), t_demo))
        THEN [err |-> 0, msp |-> msp_apply_demographic_events(msp),
              rng |-> IF n = 0 THEN rng ELSE u, dt |-> dt]
        ELSE LET now == [msp EXCEPT !.time = AdvanceClock(msp.time, dt)]
             IN  [err |-> 0, rng |-> u, dt |-> dt,
                  msp |-> IF c < Cardinality(ca)
                          THEN msp_common_ancestor_event(now, Nth(ca, c), u)
                          ELSE msp_migration_event(now, Nth(mig, c - Cardinality(ca)), u)]

\* What an iteration did, for the log: the clock before, the waiting time
\* drawn, the time of the pending demographic event, the clock after, and
\* how many stochastic and demographic events were applied
Iteration(before, dt, after) ==
    [time |-> before.time, dt |-> dt, t_demo |-> NextDemographicTime(before),
     time_after |-> after.time,
     stochastic |-> (after.num_ca_events - before.num_ca_events)
                    + Cardinality({m \in DOMAIN after.num_migration_events :
                        after.num_migration_events[m] # before.num_migration_events[m]}),
     demographic |-> after.next_demographic_event - before.next_demographic_event]

\* The tests at the head of the loop, and the status the loop is left with
LoopDone(msp, max_time, events, max_events) ==
    msp_get_num_ancestors(msp) <= 1 \/ msp.time >= max_time \/ events >= max_events
ExitStatus(msp, max_time) ==
    IF msp_get_num_ancestors(msp) <= 1 THEN MSP_EXIT_COALESCENCE
    ELSE IF msp.time >= max_time THEN MSP_EXIT_MAX_TIME
    ELSE MSP_EXIT_MAX_EVENTS

\* The loop's state: [done, status, msp, rng, events]
LoopStep(L, max_time, max_events) ==
    LET r == msp_run_iteration(L.msp, L.rng)
    IN  IF LoopDone(L.msp, max_time, L.events, max_events)
        THEN [L EXCEPT !.done = TRUE, !.status = ExitStatus(L.msp, max_time)]
        ELSE IF r.err # 0 THEN [L EXCEPT !.done = TRUE, !.status = r.err]
        ELSE [L EXCEPT !.msp = [r.msp EXCEPT !.iterations =
                                   Append(@, Iteration(L.msp, r.dt, r.msp))],
                       !.rng = r.rng, !.events = @ + 1]

\* The one member of a set of one: {F(x) : x \in {e}} has e computed once
Only(S) == CHOOSE x \in S : TRUE

\* n steps of the loop, or fewer if it is left before
RECURSIVE Loop(_, _, _, _)
Loop(L, max_time, max_events, n) ==
    IF L.done \/ n = 0 THEN L
    ELSE IF n = 1 THEN LoopStep(L, max_time, max_events)
    ELSE Only({Loop(half, max_time, max_events, n - (n \div 2)) :
                 half \in {Loop(L, max_time, max_events, n \div 2)}})

\* msp_run: events are applied until the sample has coalesced, the clock
\* has reached max_time, or max_events events have been applied
msp_run(msp, rng, max_time, max_events) ==
    Only({[status |-> L.status, msp |-> L.msp, rng |-> L.rng] :
            L \in {Loop([done |-> FALSE, status |-> 0, rng |-> rng, events |-> 0,
                         msp |-> [msp EXCEPT !.iterations = <<>>]],
                        max_time, max_events, max_events + 1)}})

(***************************************************************************)
(* RandomGenerator                                                         *)
(***************************************************************************)

\* A C pointer is a sequence: <<>> is NULL, <<x>> points to x
IsNull(ptr) == ptr = <<>>

\* seed >= 2^32
SeedTooLarge(seed) == seed \div 65536 >= 65536

RandomGenerator_init(seed) ==
    IF seed = 0 \/ SeedTooLarge(seed)
    THEN [ret |-> -1, err |-> "ValueError", seed |-> 0, rng |-> <<>>]
    ELSE [ret |-> 0, err |-> "", seed |-> seed, rng |-> <<gsl_rng_set(seed)>>]

RandomGenerator_check_state(self) == IF IsNull(self.rng) THEN -1 ELSE 0

(***************************************************************************)
(* Simulator                                                               *)
(* The object: sim, the kernel (NULL before it is allocated);              *)
(* random_generator, the generator it was built with; and of the call in   *)
(* progress or last made on it: op, the method; pc, "run" while run is in  *)
(* its loop; end_time; status, the last status of msp_run; ret, the value  *)
(* returned or the exception raised; caught, whether the last signal check *)
(* of run found a signal; interrupted, the status of the chunk after which *)
(* a run was last interrupted (NULL if none was).                          *)
(***************************************************************************)

\* The events of one msp_run call made by run
chunk == 1024

Simulator_new ==
    [sim |-> <<>>, random_generator |-> 0, op |-> "new", pc |-> "idle",
     end_time |-> 0, status |-> <<>>, ret |-> "", caught |-> FALSE,
     interrupted |-> <<>>, message |-> <<>>]

\* A method has returned (ret 0) or raised err (ret -1)
Returned(self) == [ret |-> 0, err |-> "", self |-> self]
Raised(err, self) == [ret |-> -1, err |-> err, self |-> self]
\* The object after a call into the kernel that returned [err, msp]
WithSim(self, r) == [self EXCEPT !.sim = <<r.msp>>]
\* handle_input_error: a kernel error in the caller's input
InputError(self, r) == Raised("InputError", WithSim(self, r))
\* A kernel error in item j of a list argument: the message names the
\* argument and j
InputErrorAt(self, r, section, j) ==
    Raised("InputError", [WithSim(self, r) EXCEPT !.message = <<section, j>>])
AfterKernel(self, r) == IF r.err # 0 THEN InputError(self, r) ELSE Returned(WithSim(self, r))

Simulator_check_sim(self) == IF IsNull(self.sim) THEN -1 ELSE 0

\* The samples as the kernel takes them, or the error of the first bad one
RECURSIVE parse_samples_from(_, _, _)
parse_samples_from(py_samples, num_populations, j) ==
    IF j > Len(py_samples) THEN ""
    ELSE IF py_samples[j].population < 0 THEN "ValueError"
    ELSE IF py_samples[j].population >= num_populations THEN "ValueError"
    ELSE IF py_samples[j].time < 0 THEN "ValueError"
    ELSE parse_samples_from(py_samples, num_populations, j + 1)

\* A variant that lets a population id equal the number of populations
parse_samples_m(py_samples, num_populations) ==
    LET err == parse_samples_from(py_samples, num_populations + 1, 1)
    IN  [ret |-> IF err = "" THEN 0 ELSE -1, err |-> err, samples |-> py_samples]

parse_samples(py_samples, num_populations) ==
    LET err == parse_samples_from(py_samples, num_populations, 1)
    IN  [ret |-> IF err = "" THEN 0 ELSE -1, err |-> err, samples |-> py_samples]

RECURSIVE parse_population_configuration_from(_, _, _)
parse_population_configuration_from(self, py_pop_config, j) ==
    IF j >= Len(py_pop_config) THEN Returned(self)
    ELSE LET item == py_pop_config[j + 1]
             r == msp_set_population_configuration(self.sim[1], j,
                      item.initial_size, item.growth_rate)
         IN  IF "initial_size" \notin DOMAIN item THEN Raised("ValueError", self)
             ELSE IF "growth_rate" \notin DOMAIN item THEN Raised("ValueError", self)
             ELSE IF r.err # 0 THEN InputError(self, r)
             ELSE parse_population_configuration_from(WithSim(self, r), py_pop_config, j + 1)

Simulator_parse_population_configuration(self, py_pop_config) ==
    IF Simulator_check_sim(self) # 0 THEN Raised("SystemError", self)
    ELSE parse_population_configuration_from(self, py_pop_config, 0)

\* A variant that leaves the check of the rates to the kernel
Simulator_parse_migration_matrix_m(self, py_migration_matrix) ==
    LET size == Len(py_migration_matrix)
        num_populations == msp_get_num_populations(self.sim[1])
    IN  IF num_populations * num_populations # size THEN Raised("ValueError", self)
        ELSE AfterKernel(self, msp_set_migration_matrix(self.sim[1], size, py_migration_matrix))

Simulator_parse_migration_matrix(self, py_migration_matrix) ==
    LET size == Len(py_migration_matrix)
        num_populations == msp_get_num_populations(self.sim[1])
    IN  IF Simulator_check_sim(self) # 0 THEN Raised("SystemError", self)
        ELSE IF num_populations * num_populations # size THEN Raised("ValueError", self)
        ELSE IF \E j \in 1..size : py_migration_matrix[j] < 0 THEN Raised("ValueError", self)
        ELSE AfterKernel(self, msp_set_migration_matrix(self.sim[1], size, py_migration_matrix))

\* A key the dictionary lacks
Lacks(item, keys) == \E key \in keys : key \notin DOMAIN item

\* The keys of the sweep are read, then the kernel is called
Simulator_parse_sweep_genic_selection_model(self, py_model, reference_size) ==
    IF Lacks(py_model, {"position", "start_frequency", "end_frequency", "alpha", "dt"})
    THEN Raised("ValueError", self)
    ELSE AfterKernel(self,
           msp_set_simulation_model_sweep_genic_selection(self.sim[1], reference_size,
             py_model.position))

\* A variant that lets psi be 0
Simulator_parse_simulation_model_dirac_m(self, py_model, reference_size) ==
    IF Lacks(py_model, {"psi", "c"}) THEN Raised("ValueError", self)
    ELSE IF py_model.psi < 0 \/ py_model.psi >= ONE THEN Raised("ValueError", self)
    ELSE IF py_model.c < 0 THEN Raised("ValueError", self)
    ELSE Returned(WithSim(self,
           msp_set_simulation_model(self.sim[1], "dirac", reference_size,
             [psi |-> py_model.psi, c |-> py_model.c])))

\* The branch of Simulator_parse_simulation_model for the name dirac
Simulator_parse_simulation_model_dirac(self, py_model, reference_size) ==
    IF Lacks(py_model, {"psi"}) THEN Raised("ValueError", self)
    ELSE IF Lacks(py_model, {"c"}) THEN Raised("ValueError", self)
    ELSE IF py_model.psi <= 0 \/ py_model.psi >= ONE THEN Raised("ValueError", self)
    ELSE IF py_model.c < 0 THEN Raised("ValueError", self)
    ELSE AfterKernel(self,
           msp_set_simulation_model_dirac(self.sim[1], reference_size,
             py_model.psi, py_model.c))

\* A variant that passes the two parameters in the other order
Simulator_parse_simulation_model_beta_m(self, py_model, reference_size) ==
    IF Lacks(py_model, {"alpha", "truncation_point"}) THEN Raised("ValueError", self)
    ELSE AfterKernel(self,
           msp_set_simulation_model_beta(self.sim[1], reference_size,
             py_model.truncation_point, py_model.alpha))

\* The branch for the name beta: the ranges are left to the kernel
Simulator_parse_simulation_model_beta(self, py_model, reference_size) ==
    IF Lacks(py_model, {"alpha"}) THEN Raised("ValueError", self)
    ELSE IF Lacks(py_model, {"truncation_point"}) THEN Raised("ValueError", self)
    ELSE AfterKernel(self,
           msp_set_simulation_model_beta(self.sim[1], reference_size,
             py_model.alpha, py_model.truncation_point))

\* A variant that takes a name it does not know for no change
Simulator_parse_simulation_model_unknown_m(self) == Returned(self)
\* The name is none of the eight
Simulator_parse_simulation_model_unknown(self) == Raised("ValueError", self)

Simulator_parse_simulation_model(self, py_model) ==
    IF Simulator_check_sim(self) # 0 THEN Raised("SystemError", self)
    ELSE IF Lacks(py_model, {"reference_size"}) THEN Raised("ValueError", self)
    ELSE IF py_model.reference_size <= 0 THEN Raised("ValueError", self)
    ELSE IF Lacks(py_model, {"name"}) THEN Raised("ValueError", self)
    ELSE CASE py_model.name \in {"hudson", "dtwf", "wf_ped", "smc", "smc_prime"} ->
                AfterKernel(self,
                  msp_set_simulation_model(self.sim[1], py_model.name,
                    py_model.reference_size, <<>>))
           [] py_model.name = "dirac" ->
                Simulator_parse_simulation_model_dirac(self, py_model,
                  py_model.reference_size)
           [] py_model.name = "beta" ->
                Simulator_parse_simulation_model_beta(self, py_model,
                  py_model.reference_size)
           [] py_model.name = "sweep_genic_selection" ->
                Simulator_parse_sweep_genic_selection_model(self, py_model,
                  py_model.reference_size)
           [] OTHER -> Simulator_parse_simulation_model_unknown(self)

\* A variant that counts from the end of the list
PyList_GetItem_m(list, j) == list[Len(list) - j]
\* Item j (counted from 0) of a Python list
PyList_GetItem(list, j) == list[j + 1]

\* A variant that takes a growth rate that is not given for zero
AddDemographicEvent_m(msp, item) ==
    msp_add_population_parameters_change(msp, item.time, item.population,
        IF "initial_size" \in DOMAIN item THEN item.initial_size ELSE GSL_NAN,
        IF "growth_rate" \in DOMAIN item THEN item.growth_rate ELSE 0,
        item.id)
\* The kernel call made for one demographic event; item.id is the position
\* of the event in the caller's list
AddDemographicEvent(msp, item) ==
    CASE item.type = "population_parameters_change" ->
           msp_add_population_parameters_change(msp, item.time, item.population,
               IF "initial_size" \in DOMAIN item THEN item.initial_size ELSE GSL_NAN,
               IF "growth_rate" \in DOMAIN item THEN item.growth_rate ELSE GSL_NAN,
               item.id)
      [] item.type = "migration_rate_change" ->
           msp_add_migration_rate_change(msp, item.time, item.matrix_index,
               item.migration_rate, item.id)
      [] item.type = "mass_migration" ->
           msp_add_mass_migration(msp, item.time, item.source, item.dest,
               item.proportion, item.id)
      [] item.type = "simple_bottleneck" ->
           msp_add_simple_bottleneck(msp, item.time, item.population,
               item.proportion, item.id)
      [] item.type = "instantaneous_bottleneck" ->
           msp_add_instantaneous_bottleneck(msp, item.time, item.population,
               item.strength, item.id)
      [] item.type = "census_event" ->
           msp_add_census_event(msp, item.time, item.id)

\* The keys read for each type of event
EventKeys(type) ==
    CASE type = "population_parameters_change" -> {"population"}
      [] type = "migration_rate_change" -> {"migration_rate", "matrix_index"}
      [] type = "mass_migration" -> {"proportion", "source", "dest"}
      [] type = "simple_bottleneck" -> {"proportion", "population"}
      [] type = "instantaneous_bottleneck" -> {"strength", "population"}
      [] OTHER -> {}

\* The types of event that are known
EventTypes ==
    {"population_parameters_change", "migration_rate_change", "mass_migration",
     "simple_bottleneck", "instantaneous_bottleneck", "census_event"}

RECURSIVE parse_demographic_events_from(_, _, _)
parse_demographic_events_from(self, py_events, j) ==
    IF j >= Len(py_events) THEN Returned(self)
    ELSE LET item == PyList_GetItem(py_events, j)
             r == AddDemographicEvent(self.sim[1], item)
         IN  IF "time" \notin DOMAIN item THEN Raised("ValueError", self)
             ELSE IF item.time < 0 THEN Raised("ValueError", self)
             ELSE IF "type" \notin DOMAIN item THEN Raised("ValueError", self)
             ELSE IF item.type \notin EventTypes THEN Raised("ValueError", self)
             ELSE IF Lacks(item, EventKeys(item.type)) THEN Raised("ValueError", self)
             ELSE IF r.err # 0 THEN InputErrorAt(self, r, "demographic_events", j)
             ELSE parse_demographic_events_from(WithSim(self, r), py_events, j + 1)

\* A variant that starts at the second event of the list
Simulator_parse_demographic_events_m(self, py_events) ==
    parse_demographic_events_from(self, py_events, 1)

Simulator_parse_demographic_events(self, py_events) ==
    IF Simulator_check_sim(self) # 0 THEN Raised("SystemError", self)
    ELSE parse_demographic_events_from(self, py_events, 0)

\* A variant that gives every kernel the same generator
Simulator_rng_m(self) == 1
\* The generator the kernel is given
Simulator_rng(self) == self.random_generator

\* Simulator(samples, random_generator, population_configuration,
\* migration_matrix, demographic_events, store_migrations, start_time):
\* optional arguments may be missing from args; gens are the generators.
\* The steps are made in turn, the first that raises ends the call; each
\* step takes the outcome r of the steps before it.

\* The number of populations the arguments give
Simulator_init_num_populations(args) ==
    IF "population_configuration" \in DOMAIN args
    THEN Len(args.population_configuration) ELSE 1

\* The generator is checked, the samples are parsed, the kernel is allocated
Simulator_init_alloc(self, args, gens, samples) ==
    IF RandomGenerator_check_state(gens[self.random_generator]) # 0
    THEN Raised("SystemError", self)
    ELSE IF "population_configuration" \in DOMAIN args
            /\ Len(args.population_configuration) = 0
    THEN Raised("ValueError", self)
    ELSE IF samples.ret # 0 THEN Raised(samples.err, self)
    ELSE Returned([self EXCEPT
           !.sim = <<msp_alloc(samples.samples, Simulator_rng(self))>>])

\* PyArray_FROMANY(input, npy_type, 2, 2, NPY_ARRAY_IN_ARRAY) succeeds
PyArray_FROMANY_2D_ok(input, npy_type) ==
    input.k = "array2d" /\ CanCastSafely(input.t, npy_type)

\* The four arrays are read, parents first: it gives the number of
\* individuals the others are checked against
Simulator_parse_pedigree(self, pedigree_dict) ==
    LET inds_input == get_table_dict_value(pedigree_dict, "individual", TRUE)
        parents_input == get_table_dict_value(pedigree_dict, "parents", TRUE)
        times_input == get_table_dict_value(pedigree_dict, "time", TRUE)
        is_sample_input == get_table_dict_value(pedigree_dict, "is_sample", TRUE)
        num_inds == Shape0(parents_input.v)
        ploidy == parents_input.v.v.shape1
        inds_array == table_read_column_array(inds_input.v, NPY_INT32, num_inds, TRUE)
        times_array == table_read_column_array(times_input.v, NPY_FLOAT64, num_inds, TRUE)
        is_sample_array ==
          table_read_column_array(is_sample_input.v, NPY_UINT32, num_inds, TRUE)
    IN  IF ~inds_input.ok THEN Raised(inds_input.err, self)
        ELSE IF ~parents_input.ok THEN Raised(parents_input.err, self)
        ELSE IF ~times_input.ok THEN Raised(times_input.err, self)
        ELSE IF ~is_sample_input.ok THEN Raised(is_sample_input.err, self)
        ELSE IF ~PyArray_FROMANY_2D_ok(parents_input.v, NPY_INT32)
        THEN Raised(IF parents_input.v.k = "array2d" THEN "TypeError" ELSE "ValueError",
                    self)
        ELSE IF ~inds_array.ok THEN Raised(inds_array.err, self)
        ELSE IF ~times_array.ok THEN Raised(times_array.err, self)
        ELSE IF ~is_sample_array.ok THEN Raised(is_sample_array.err, self)
        ELSE AfterKernel(self,
               msp_set_pedigree(
                 msp_alloc_pedigree(self.sim[1], num_inds, ploidy).msp, num_inds,
                 inds_array.array.data, parents_input.v.v.rows, times_array.array.data,
                 is_sample_array.array.data))

\* A variant that takes a pedigree under every model
Simulator_init_pedigree_m(r, args) ==
    IF r.ret # 0 \/ "pedigree" \notin DOMAIN args THEN r
    ELSE IF args.pedigree.k = "none" THEN r
    ELSE IF args.pedigree.k # "dict" THEN Raised("TypeError", r.self)
    ELSE Simulator_parse_pedigree(r.self, args.pedigree.v)

\* A pedigree that is not None is parsed, under the model wf_ped only
Simulator_init_pedigree(r, args) ==
    IF r.ret # 0 \/ "pedigree" \notin DOMAIN args THEN r
    ELSE IF args.pedigree.k = "none" THEN r
    ELSE IF args.pedigree.k # "dict" THEN Raised("TypeError", r.self)
    ELSE IF r.self.sim[1].model.type # "wf_ped" THEN Raised("ValueError", r.self)
    ELSE Simulator_parse_pedigree(r.self, args.pedigree.v)

\* The model is parsed when one was given
Simulator_init_model(r, args) ==
    IF r.ret # 0 \/ "model" \notin DOMAIN args THEN r
    ELSE Simulator_parse_simulation_model(r.self, args.model)

\* start_time is set when it was given (a negative value stands for none)
Simulator_init_start_time(r, args) ==
    IF r.ret # 0 \/ args.start_time < 0 THEN r
    ELSE AfterKernel(r.self, msp_set_start_time(r.self.sim[1], args.start_time))

Simulator_init_store_migrations(r, args) ==
    IF r.ret # 0 THEN r
    ELSE AfterKernel(r.self, msp_set_store_migrations(r.self.sim[1], args.store_migrations))

Simulator_init_dimensions(r, args) ==
    IF r.ret # 0 THEN r
    ELSE AfterKernel(r.self,
           msp_set_dimensions(r.self.sim[1], Simulator_init_num_populations(args), 1))

\* The migration matrix follows a population configuration that was parsed
Simulator_init_migration_matrix(p, args) ==
    IF p.ret # 0 THEN p
    ELSE IF "migration_matrix" \notin DOMAIN args THEN Raised("ValueError", p.self)
    ELSE Simulator_parse_migration_matrix(p.self, args.migration_matrix)

\* population_configuration and migration_matrix are given together or not
\* at all
Simulator_init_populations_m(r, args) ==
    IF r.ret # 0 THEN r
    ELSE IF "population_configuration" \in DOMAIN args
    THEN Simulator_init_migration_matrix(
           Simulator_parse_population_configuration(r.self, args.population_configuration),
           args)
    ELSE r

Simulator_init_populations(r, args) ==
    IF r.ret # 0 THEN r
    ELSE IF "population_configuration" \in DOMAIN args
    THEN Simulator_init_migration_matrix(
           Simulator_parse_population_configuration(r.self, args.population_configuration),
           args)
    ELSE IF "migration_matrix" \in DOMAIN args THEN Raised("ValueError", r.self)
    ELSE r

Simulator_init_demographic_events(r, args) ==
    IF r.ret # 0 \/ "demographic_events" \notin DOMAIN args THEN r
    ELSE Simulator_parse_demographic_events(r.self, args.demographic_events)

Simulator_init_initialise(r) ==
    IF r.ret # 0 THEN r
    ELSE AfterKernel(r.self, msp_initialise(r.self.sim[1]))

\* The object as the call leaves it
Simulator_init_return(r) == [r.self EXCEPT !.ret = IF r.ret = 0 THEN "None" ELSE r.err]

Simulator_init(args, gens) ==
    Simulator_init_return(
     Simulator_init_initialise(
      Simulator_init_demographic_events(
       Simulator_init_populations(
        Simulator_init_pedigree(
         Simulator_init_dimensions(
          Simulator_init_store_migrations(
           Simulator_init_start_time(
            Simulator_init_model(
             Simulator_init_alloc(
               [Simulator_new EXCEPT !.random_generator = args.random_generator,
                                     !.op = "init"],
               args, gens,
               parse_samples(args.samples, Simulator_init_num_populations(args))),
             args), args), args), args), args), args), args)))

\* get_model: the name and the reference size, and the parameters of a
\* dirac, a beta or a sweep model
Simulator_get_model(self) ==
    IF Simulator_check_sim(self) # 0 THEN [error |-> "SystemError"]
    ELSE LET model == msp_get_model(self.sim[1])
             name == msp_get_model_name(self.sim[1])
         IN  CASE model.type = "dirac" ->
                    [name |-> name, reference_size |-> model.reference_size,
                     psi |-> model.params.psi, c |-> model.params.c]
               [] model.type = "beta" ->
                    [name |-> name, reference_size |-> model.reference_size,
                     alpha |-> model.params.alpha,
                     truncation_point |-> model.params.truncation_point]
               [] model.type = "sweep_genic_selection" ->
                    [name |-> name, reference_size |-> model.reference_size,
                     locus |-> model.params.locus]
               [] OTHER -> [name |-> name, reference_size |-> model.reference_size]

\* set_model: the object as the call leaves it
Simulator_set_model(self, py_model) ==
    LET call == [self EXCEPT !.op = "set_model"]
        r == Simulator_parse_simulation_model(call, py_model)
    IN  IF Simulator_check_sim(self) # 0 THEN [call EXCEPT !.ret = "SystemError"]
        ELSE [r.self EXCEPT !.ret = IF r.ret = 0 THEN "None" ELSE r.err]

Simulator_get_time(self) == msp_get_time(self.sim[1])

\* A variant that fills the list from its last place
Simulator_individual_to_python_m(self, ind) ==
    [j \in 1..Len(ind) |->
       <<ind[Len(ind) + 1 - j].left, ind[Len(ind) + 1 - j].right,
         ind[Len(ind) + 1 - j].value, ind[Len(ind) + 1 - j].population_id>>]
\* The list of (left, right, value, population_id) of the chain ind, in the
\* order of the chain
Simulator_individual_to_python(self, ind) ==
    [j \in 1..Len(ind) |-> <<ind[j].left, ind[j].right, ind[j].value, ind[j].population_id>>]

\* get_ancestors: one list per extant lineage
Simulator_get_ancestors(self) ==
    IF Simulator_check_sim(self) # 0 THEN [error |-> "SystemError", value |-> <<>>]
    ELSE [error |-> "",
          value |-> [j \in 1..msp_get_num_ancestors(self.sim[1]) |->
                       Simulator_individual_to_python(self,
                           msp_get_ancestors(self.sim[1])[j])]]

\* run, up to its loop
Simulator_run_begin(self, end_time) ==
    LET call == [self EXCEPT !.op = "run", !.status = <<>>, !.caught = FALSE]
    IN  IF Simulator_check_sim(self) # 0 THEN [call EXCEPT !.ret = "SystemError"]
        ELSE IF end_time < 0 THEN [call EXCEPT !.ret = "ValueError"]
        ELSE [call EXCEPT !.pc = "run", !.end_time = end_time, !.ret = ""]

\* A variant that starts the replicate afresh
Simulator_run_interrupted_m(self) ==
    [self EXCEPT !.pc = "idle", !.ret = "KeyboardInterrupt", !.interrupted = self.status,
                 !.sim = <<msp_reset(self.sim[1]).msp>>]
\* run raises what the signal handler raised; the kernel is left alone
Simulator_run_interrupted(self) ==
    [self EXCEPT !.pc = "idle", !.ret = "KeyboardInterrupt", !.interrupted = self.status]

\* A variant that takes every end of the loop for coalescence
Simulator_run_result_m(status) == IF status # MSP_EXIT_MAX_EVENTS THEN "True" ELSE "False"
\* The value run returns when its loop has ended with status
Simulator_run_result(status) == IF status = 0 THEN "True" ELSE "False"

\* What run does with the result r of msp_run: rng is the state of the
\* kernel's generator, pending says a signal is pending.
\* [self, rng, pending] afterwards.
Simulator_run_after_chunk(self, r, pending) ==
    LET ran == [self EXCEPT !.sim = <<r.msp>>, !.status = <<r.status>>]
        not_done == r.status = MSP_EXIT_MAX_EVENTS
    IN  IF r.status < 0
        THEN [self |-> [ran EXCEPT !.pc = "idle", !.ret = "LibraryError"],
              rng |-> r.rng, pending |-> pending]
        ELSE IF pending
        THEN [self |-> Simulator_run_interrupted([ran EXCEPT !.caught = TRUE]),
              rng |-> r.rng, pending |-> FALSE]
        ELSE IF not_done
        THEN [self |-> ran, rng |-> r.rng, pending |-> pending]
        ELSE [self |-> [ran EXCEPT !.pc = "idle", !.ret = Simulator_run_result(r.status)],
              rng |-> r.rng, pending |-> pending]

\* One turn of run's loop and, when the loop ends, the return
Simulator_run_chunk(self, rng, pending) ==
    Only({Simulator_run_after_chunk(self, r, pending) :
            r \in {msp_run(self.sim[1], rng, self.end_time, chunk)}})

\* What run_event does with the result r of msp_run
Simulator_run_event_after(self, r) ==
    LET ran == [self EXCEPT !.sim = <<r.msp>>, !.status = <<r.status>>]
    IN  IF r.status < 0
        THEN [self |-> [ran EXCEPT !.ret = "LibraryError"], rng |-> r.rng]
        ELSE [self |-> [ran EXCEPT !.ret = IF r.status = 0 THEN "True" ELSE "False"],
              rng |-> r.rng]

\* A variant that lets the kernel apply two events
Simulator_run_event_m(self, rng) ==
    LET call == [self EXCEPT !.op = "run_event", !.status = <<>>, !.caught = FALSE]
    IN  IF Simulator_check_sim(self) # 0
        THEN [self |-> [call EXCEPT !.ret = "SystemError"], rng |-> rng]
        ELSE Only({Simulator_run_event_after(call, r) :
                     r \in {msp_run(self.sim[1], rng, DBL_MAX, 2)}})

\* run_event: [self, rng] afterwards
Simulator_run_event(self, rng) ==
    LET call == [self EXCEPT !.op = "run_event", !.status = <<>>, !.caught = FALSE]
    IN  IF Simulator_check_sim(self) # 0
        THEN [self |-> [call EXCEPT !.ret = "SystemError"], rng |-> rng]
        ELSE Only({Simulator_run_event_after(call, r) :
                     r \in {msp_run(self.sim[1], rng, DBL_MAX, 1)}})

\* A variant that leaves the kernel as it is
Simulator_reset_m(self) ==
    [self EXCEPT !.op = "reset", !.status = <<>>, !.caught = FALSE, !.ret = "None"]

Simulator_reset(self) ==
    LET call == [self EXCEPT !.op = "reset", !.status = <<>>, !.caught = FALSE]
        r == msp_reset(self.sim[1])
    IN  IF Simulator_check_sim(self) # 0 THEN [call EXCEPT !.ret = "SystemError"]
        ELSE IF r.err < 0 THEN [call EXCEPT !.ret = "LibraryError"]
        ELSE [call EXCEPT !.sim = <<r.msp>>, !.ret = "None"]

(***************************************************************************)
(* Simulations: the arguments two simulators are built from.               *)
(***************************************************************************)

Sample(population, time) == [population |-> population, time |-> time]
Population(initial_size) == [initial_size |-> initial_size, growth_rate |-> 0]
MassMigration(id, time, source, dest) ==
    [id |-> id, type |-> "mass_migration", time |-> time, source |-> source,
     dest |-> dest, proportion |-> 1]
MigrationRateChange(id, time, matrix_index, migration_rate) ==
    [id |-> id, type |-> "migration_rate_change", time |-> time,
     matrix_index |-> matrix_index, migration_rate |-> migration_rate]

\* Two samples in one population
OnePopulation ==
    [samples |-> <<Sample(0, 0), Sample(0, 0)>>,
     store_migrations |-> FALSE, start_time |-> -1]

\* Three samples in two populations with migration both ways, migrations
\* recorded; the rates change at time 1, at time 2 two mass migrations
TwoPopulations ==
    [samples |-> <<Sample(0, 0), Sample(0, 0), Sample(1, 0)>>,
     population_configuration |-> <<Population(1), Population(2)>>,
     migration_matrix |-> <<0, 1, 1, 0>>,
     demographic_events |-> <<MigrationRateChange(1, 1, 2, 0),
                              MassMigration(2, 2, 0, 1), MassMigration(3, 2, 1, 0)>>,
     store_migrations |-> TRUE, start_time |-> -1]

\* Two populations without migration, joined at time 3; the clock starts at 1
Isolated ==
    [samples |-> <<Sample(0, 0), Sample(1, 0)>>,
     population_configuration |-> <<Population(1), Population(1)>>,
     migration_matrix |-> <<0, 0, 0, 0>>,
     demographic_events |-> <<MassMigration(1, 3, 1, 0)>>,
     store_migrations |-> FALSE, start_time |-> 1]

\* Two populations without migration that are never joined
Apart ==
    [samples |-> <<Sample(0, 0), Sample(1, 0)>>,
     population_configuration |-> <<Population(1), Population(1)>>,
     migration_matrix |-> <<0, 0, 0, 0>>,
     store_migrations |-> FALSE, start_time |-> -1]

\* One lineage alone in population 0, one that moves between populations 1
\* and 2 until all are joined in population 0 at time 515: more than a
\* thousand events
ManyEvents ==
    [samples |-> <<Sample(0, 0), Sample(1, 0)>>,
     population_configuration |-> <<Population(1), Population(1), Population(1)>>,
     migration_matrix |-> <<0, 0, 0, 0, 0, 1, 0, 1, 0>>,
     demographic_events |-> <<MassMigration(1, 515, 1, 0), MassMigration(2, 515, 2, 0)>>,
     store_migrations |-> FALSE, start_time |-> -1]

Simulations == <<OnePopulation, TwoPopulations, Isolated, Apart, ManyEvents>>

Seeds == {1, 6}

\* The end times run is called with
EndTimes == {2, DBL_MAX}

\* Bounds on the calls made to each simulator and on the signals
MaxCalls == 3
MaxSignals == 1

SimIds == {1, 2}

\* The arguments of simulator i: its own generator
Args(simulation, i) ==
    [key \in (DOMAIN simulation) \cup {"random_generator"} |->
       IF key = "random_generator" THEN i ELSE simulation[key]]


(***************************************************************************)
(* The table-collection operations as actions.                             *)
(***************************************************************************)

\* Bound on the number of calls in one behaviour
MaxTableCalls == 2

CollectionIds == {1, 2}

\* The rows a table's dictionary describes: the entries of its first
\* fixed-width column, or (no such column) of its first offset column less 1
DictNumRows(tbl, td) ==
    LET cols == table_descs[tbl]
        fixed == {i \in DOMAIN cols : cols[i].len = "num_rows"}
        offs == {i \in DOMAIN cols : cols[i].len = "num_rows+1"}
        first(S) == cols[CHOOSE i \in S : \A j \in S : i <= j].name
    IN  IF fixed # {} THEN Len(td[first(fixed)].data) ELSE Len(td[first(offs)].data) - 1

\* Offset column o does not describe n rows packed in data
BadOffsets(o, data, n) ==
    \/ Len(o) # n + 1
    \/ o[1] # 0
    \/ o[n + 1] # Len(data)
    \/ \E j \in 1..n : o[j] > o[j + 1]

\* Some variable-length column of the dictionary comes with an offset column
\* that breaks the encoding (all columns of the table being arrays)
OffsetViolation(d) ==
    \E tbl \in DOMAIN table_descs :
      /\ tbl \in DOMAIN d /\ d[tbl].k = "dict"
      /\ \A i \in DOMAIN table_descs[tbl] : table_descs[tbl][i].name \in DOMAIN d[tbl].v
      /\ \A c \in DOMAIN d[tbl].v : d[tbl].v[c].k \in {"array", "none"}
      /\ LET td == d[tbl].v
             cols == table_descs[tbl]
         IN  \E i \in DOMAIN cols :
               /\ cols[i].len = "length"
               /\ td[cols[i].name].k = "array"
               /\ td[cols[i + 1].name].k = "array"
               /\ \A c \in DOMAIN td : td[c].k = "array"
               /\ BadOffsets(td[cols[i + 1].name].data, td[cols[i].name].data,
                             DictNumRows(tbl, td))

svars == <<generators, simulators, driver, signal>>

\* No call made on a table collection
TIdle ==
    /\ ltc = [c \in CollectionIds |-> LightweightTableCollection_init(-1)]
    /\ tlast = [op |-> "init", on |-> 0, src |-> 0, ret |-> 0, err |-> "", viol |-> FALSE, n |-> 0]
    /\ interval_maps = <<>>

\* No simulator built
SIdle ==
    /\ generators = <<>>
    /\ simulators = <<>>
    /\ driver = [op |-> "none", arg |-> 0, who |-> 1, n |-> 0, resets |-> 0]
    /\ signal = [pending |-> FALSE, n |-> 0]

\* The module as imported: old_gsl_error_handler is NULL, the handler of the
\* process is the one GSL starts with (NULL); no thread is in a call
GslIdle ==
    gsl = [handler |-> "NULL", old_gsl_error_handler |-> "NULL",
           found |-> "NULL", calls |-> <<>>]
MIdle == GslIdle /\ threads = <<>>

TInit == TIdle /\ SIdle /\ MIdle

\* c.fromdict(d); collection 2 is only given well-formed encodings
FromDict(c, d) ==
    /\ tlast.n < MaxTableCalls
    /\ c = 1 \/ d \in {Dict1, Dict2}
    /\ LET r == LightweightTableCollection_fromdict(ltc[c], d)
       IN  /\ ltc' = [ltc EXCEPT ![c] = r.tables]
           /\ tlast' = [op |-> "fromdict", on |-> c, src |-> 0, ret |-> r.ret, err |-> r.err,
                        viol |-> OffsetViolation(d), n |-> tlast.n + 1]
    /\ UNCHANGED <<interval_maps, svars, mvars>>

\* to.fromdict(from.asdict())
RoundTrip(from, to) ==
    /\ tlast.n < MaxTableCalls
    /\ from # to
    /\ LET r == LightweightTableCollection_fromdict(ltc[to],
                    LightweightTableCollection_asdict(ltc[from]))
       IN  /\ ltc' = [ltc EXCEPT ![to] = r.tables]
           /\ tlast' = [op |-> "roundtrip", on |-> to, src |-> from, ret |-> r.ret, err |-> r.err,
                        viol |-> FALSE, n |-> tlast.n + 1]
    /\ UNCHANGED <<interval_maps, svars, mvars>>

TNext ==
    \/ \E c \in CollectionIds, d \in InputDicts : FromDict(c, d)
    \/ \E from \in CollectionIds, to \in CollectionIds : RoundTrip(from, to)

vars == <<ltc, tlast, generators, simulators, driver, signal, gsl, threads, interval_maps>>

SpecTables == TInit /\ [][TNext]_vars

(***************************************************************************)
(* The simulator's methods as actions.  The caller makes each call on      *)
(* simulator 1 and then the same call on simulator 2; `driver` holds the   *)
(* call being made, the simulator it is made on next, the number of calls  *)
(* made and how many of them were resets.  `signal` is the process's       *)
(* pending-signal flag and the number of signals that have arrived.        *)
(***************************************************************************)

SInit ==
    /\ \E k \in DOMAIN Simulations, seed \in Seeds :
         /\ generators = [g \in SimIds |-> RandomGenerator_init(seed)]
         /\ simulators = [i \in SimIds |->
              Simulator_init(Args(Simulations[k], i),
                             [g \in SimIds |-> RandomGenerator_init(seed)])]
    /\ driver = [op |-> "none", arg |-> 0, who |-> 1, n |-> 0, resets |-> 0]
    /\ signal = [pending |-> FALSE, n |-> 0]
    /\ TIdle
    /\ MIdle

\* The call op(arg) can be made on simulator i, and is made
Call(i, op, arg) ==
    /\ \A k \in SimIds : simulators[k].pc = "idle"
    /\ driver.who = i
    /\ IF i = 1 THEN driver.n < MaxCalls ELSE driver.op = op /\ driver.arg = arg
    /\ driver' = [driver EXCEPT
                    !.op = op, !.arg = arg, !.who = IF i = 1 THEN 2 ELSE 1,
                    !.n = IF i = 1 THEN driver.n + 1 ELSE driver.n,
                    !.resets = IF i = 1 /\ op = "reset" THEN driver.resets + 1
                               ELSE driver.resets]

\* The state of the generator the kernel of simulator i draws from
RngOf(i) == generators[simulators[i].sim[1].rng].rng[1]
DrawnBy(i, rng) == [generators EXCEPT ![simulators[i].sim[1].rng].rng = <<rng>>]

\* simulators[i].run(end_time) is called
Run(i, end_time) ==
    /\ Call(i, "run", end_time)
    /\ simulators' = [simulators EXCEPT ![i] = Simulator_run_begin(@, end_time)]
    /\ UNCHANGED <<generators, signal, tvars, mvars>>

\* run goes once round its loop
RunChunk(i) ==
    /\ simulators[i].pc = "run"
    /\ LET r == Simulator_run_chunk(simulators[i], RngOf(i), signal.pending)
       IN  /\ simulators' = [simulators EXCEPT ![i] = r.self]
           /\ generators' = DrawnBy(i, r.rng)
           /\ signal' = [signal EXCEPT !.pending = r.pending]
    /\ UNCHANGED <<driver, tvars, mvars>>

\* simulators[i].run_event()
RunEvent(i) ==
    /\ Call(i, "run_event", 0)
    /\ LET r == Simulator_run_event(simulators[i], RngOf(i))
       IN  /\ simulators' = [simulators EXCEPT ![i] = r.self]
           /\ generators' = DrawnBy(i, r.rng)
    /\ UNCHANGED <<signal, tvars, mvars>>

\* simulators[i].reset()
Reset(i) ==
    /\ Call(i, "reset", 0)
    /\ simulators' = [simulators EXCEPT ![i] = Simulator_reset(@)]
    /\ UNCHANGED <<generators, signal, tvars, mvars>>

\* A signal whose handler raises arrives while a run is in its loop
Signal ==
    /\ signal.n < MaxSignals
    /\ ~signal.pending
    /\ \E i \in SimIds : simulators[i].pc = "run"
    /\ signal' = [pending |-> TRUE, n |-> signal.n + 1]
    /\ UNCHANGED <<generators, simulators, driver, tvars, mvars>>

SNext ==
    \/ \E i \in SimIds, end_time \in EndTimes : Run(i, end_time)
    \/ \E i \in SimIds : RunChunk(i)
    \/ \E i \in SimIds : RunEvent(i)
    \/ \E i \in SimIds : Reset(i)
    \/ Signal

SpecSim == SInit /\ [][SNext]_vars

(***************************************************************************)
(* Properties of the table-collection operations.                          *)
(***************************************************************************)

\* C7: loading the dictionary returned by asdict(T) with fromdict succeeds
\* and yields a collection equal to T in sequence_length and in every column
\* of all eight tables.
C7_RoundTrip ==
    tlast.op = "roundtrip" =>
      /\ tlast.ret = 0
      /\ ltc[tlast.on].sequence_length = ltc[tlast.src].sequence_length
      /\ \A name \in DOMAIN table_descs :
            ltc[tlast.on].tables[name] = ltc[tlast.src].tables[name]

\* A round trip of a collection that has rows in all eight tables
C7_Witness ==
    /\ tlast.op = "roundtrip"
    /\ \A name \in DOMAIN table_descs : ltc[tlast.src].tables[name].num_rows > 0
    /\ ltc[tlast.src].sequence_length = 10

\* C8: a dictionary in which the offset column of a variable-length column
\* has not num_rows+1 entries, does not start at 0, does not end at the
\* length of the packed data, or decreases, is rejected by fromdict.
C8_BadOffsetsRejected ==
    (tlast.op = "fromdict" /\ tlast.viol) => tlast.ret # 0

\* C9: a fromdict call that fails leaves sequence_length and all eight
\* tables of the collection as they were before the call.
C9_FailedFromdictKeepsState ==
    [][(tlast'.op = "fromdict" /\ tlast'.ret # 0) => ltc' = ltc]_vars

(***************************************************************************)
(* Properties of the simulator.                                            *)
(***************************************************************************)

\* The kernel of simulator i
Kernel(i) == simulators[i].sim[1]

\* The events simulator i has applied since its last reset
EventsApplied(i) ==
    LET msp == Kernel(i)
        RECURSIVE Sum(_, _)
        Sum(f, j) == IF j = 0 THEN 0 ELSE f[j] + Sum(f, j - 1)
    IN  msp.num_ca_events
        + Sum(msp.num_migration_events, Len(msp.num_migration_events))
        + (msp.next_demographic_event - 1)

\* Every simulator has been given the calls made so far, and has returned
RoundComplete == driver.who = 1 /\ \A i \in SimIds : simulators[i].pc = "idle"

\* The records and the clock of simulator i
Outcome_of(i) ==
    [nodes |-> Kernel(i).nodes, edges |-> Kernel(i).edges,
     migrations |-> Kernel(i).migrations, time |-> Simulator_get_time(simulators[i])]

\* C1 (as amended): run calls the kernel step with a chunk of 1024 events
\* and goes on for as long as the step reports MAX_EVENTS and no signal is
\* pending after it; run raises LibraryError if and only if the status is
\* negative; after a step with a status that is not negative it raises the
\* signal handler's exception if a signal is pending; otherwise, when the
\* status is not MAX_EVENTS, it returns True for COALESCED (0) and False
\* for MAX_TIME.
C1_RunResultUnlessSignal ==
    \A i \in SimIds :
      (simulators[i].op = "run" /\ ~IsNull(simulators[i].status)) =>
        LET self == simulators[i]
            status == self.status[1]
        IN  /\ (self.ret = "LibraryError") <=> (status < 0)
            /\ status < 0 => self.pc = "idle"
            /\ (status >= 0 /\ self.caught) =>
                 self.pc = "idle" /\ self.ret = "KeyboardInterrupt"
            /\ (status >= 0 /\ ~self.caught) =>
                 /\ (self.pc = "run") <=> (status = MSP_EXIT_MAX_EVENTS)
                 /\ (self.ret = "True") <=> (status = MSP_EXIT_COALESCENCE)
                 /\ status = MSP_EXIT_MAX_TIME => self.ret = "False"
            /\ status = MSP_EXIT_MAX_EVENTS => Len(Kernel(i).iterations) = 1024

\* A run that went on after a chunk of 1024 events and returned True
C1_Witness ==
    \E i \in SimIds :
      /\ simulators[i].op = "run" /\ simulators[i].ret = "True"
      /\ simulators[i].status = <<MSP_EXIT_COALESCENCE>>
      /\ IsNull(simulators[i].interrupted)
      /\ driver.n = 1
      /\ EventsApplied(i) > 1024

\* C1 (as stated): run goes on for as long as the step reports MAX_EVENTS;
\* when the step reports any other status, run returns True if and only if
\* the status is COALESCED, returns False for MAX_TIME, and raises
\* LibraryError if and only if the status is negative.
C1_RunResult ==
    \A i \in SimIds :
      (simulators[i].op = "run" /\ ~IsNull(simulators[i].status)) =>
        LET self == simulators[i]
            status == self.status[1]
        IN  /\ (self.pc = "run") <=> (status = MSP_EXIT_MAX_EVENTS)
            /\ status # MSP_EXIT_MAX_EVENTS =>
                 /\ (self.ret = "True") <=> (status = MSP_EXIT_COALESCENCE)
                 /\ status = MSP_EXIT_MAX_TIME => self.ret = "False"
                 /\ (self.ret = "LibraryError") <=> (status < 0)

\* C2: a run that a signal ended after a chunk leaves the simulator where
\* that chunk left it, and later run calls continue from there: once the
\* simulators have been given the same calls (none a reset) and have
\* coalesced, a simulator whose run was interrupted has the same nodes,
\* edges, migrations and clock as one built alike whose run was not.
C2_InterruptedRunResumes ==
    (RoundComplete /\ driver.resets = 0) =>
      \A i, j \in SimIds :
        (/\ ~IsNull(simulators[i].interrupted)
         /\ simulators[i].status = <<MSP_EXIT_COALESCENCE>>
         /\ simulators[j].status = <<MSP_EXIT_COALESCENCE>>)
        => Outcome_of(i) = Outcome_of(j)

\* A run was interrupted after a chunk that reported MAX_EVENTS, its twin
\* was not, and both have since coalesced
C2_Witness ==
    /\ RoundComplete /\ driver.resets = 0
    /\ \E i, j \in SimIds :
         /\ simulators[i].interrupted = <<MSP_EXIT_MAX_EVENTS>>
         /\ IsNull(simulators[j].interrupted)
         /\ simulators[i].status = <<MSP_EXIT_COALESCENCE>>
         /\ simulators[j].status = <<MSP_EXIT_COALESCENCE>>
         /\ simulators[i].ret = "True"

\* C3: in every iteration of the event loop in which the time t + dt drawn
\* for the next stochastic event is not before the time t_demo of the
\* pending demographic event, the clock is set to t_demo, the demographic
\* event is applied and no stochastic event is.
C3_DemographicEventFirst ==
    \A i \in SimIds :
      \A k \in DOMAIN Kernel(i).iterations :
        LET it == Kernel(i).iterations[k]
        IN  (it.t_demo # DBL_MAX /\ it.time + it.dt >= it.t_demo) =>
              /\ it.time_after = it.t_demo
              /\ it.demographic = 1
              /\ it.stochastic = 0

\* An iteration in which a stochastic event was drawn for exactly the time
\* of the pending demographic event, after a positive waiting time
C3_Witness ==
    \E i \in SimIds :
      \E k \in DOMAIN Kernel(i).iterations :
        LET it == Kernel(i).iterations[k]
        IN  it.dt > 0 /\ it.dt # DBL_MAX /\ it.time + it.dt = it.t_demo

EventTime(i, idx) ==
    LET q == Kernel(i).demographic_events
    IN  q[CHOOSE k \in DOMAIN q : q[k].idx = idx].time

\* C5: demographic events of equal time are applied in the order of the
\* demographic_events list given to the constructor.
C5_EqualTimesInListOrder ==
    \A i \in SimIds :
      LET applied == Kernel(i).applied
      IN  \A a, b \in DOMAIN applied :
            (a < b /\ EventTime(i, applied[a]) = EventTime(i, applied[b]))
            => applied[a] < applied[b]

\* Two demographic events of equal time have been applied
C5_Witness ==
    \E i \in SimIds :
      LET applied == Kernel(i).applied
      IN  \E a, b \in DOMAIN applied :
            a < b /\ EventTime(i, applied[a]) = EventTime(i, applied[b])

C10_ResetState ==
    \A i \in SimIds :
      (simulators[i].op = "reset" /\ simulators[i].ret = "None") =>
        LET msp == Kernel(i)
        IN  /\ Simulator_get_time(simulators[i]) = msp.start_time
            /\ Len(msp.lineages) = Len(msp.samples)
            /\ \A j \in DOMAIN msp.samples :
                 /\ msp.lineages[j].node = j - 1
                 /\ msp.lineages[j].population = msp.samples[j].population
            /\ msp.num_ca_events = 0
            /\ \A m \in DOMAIN msp.num_migration_events : msp.num_migration_events[m] = 0
            /\ Len(msp.nodes) = Len(msp.samples)
            /\ msp.edges = <<>>
            /\ msp.migrations = <<>>
            /\ msp.next_demographic_event = 1
            /\ msp.applied = <<>>
            /\ msp.migration_matrix = msp.initial_migration_matrix

\* A reset of a simulator after calls that drew from its generator
C10_Witness ==
    \E i \in SimIds :
      /\ simulators[i].op = "reset" /\ simulators[i].ret = "None"
      /\ driver.n >= 2
      /\ generators[simulators[i].random_generator].rng
           # <<gsl_rng_set(generators[simulators[i].random_generator].seed)>>

(***************************************************************************)
(* Threads. One Simulator is shared by the Python threads of the process.  *)
(* A method runs holding the interpreter lock, so it is one step, except   *)
(* that run gives the lock up around every msp_run call: from then until   *)
(* msp_run returns the kernel executes beside the other threads.           *)
(* threads[t] is the call of thread t: call, the object as the call sees   *)
(* it (op, pc, end_time, status, ret; the kernel itself is shared); n, the *)
(* calls made; entry, the kernel as it was when msp_run was entered;       *)
(* raced, whether another call touched the kernel since; during, the       *)
(* threads that were inside msp_run on this simulator when the call was    *)
(* made; read, the value a getter returned.                                *)
(***************************************************************************)

ThreadIds == {1, 2}

\* Bound on the calls of one thread
MaxThreadCalls == 2

\* The simulations the threads share a simulator of
ThreadSimulations == <<OnePopulation, TwoPopulations, Isolated>>

\* The object as the call of thread t sees it, and as the call keeps it
View(t) == [threads[t].call EXCEPT !.sim = simulators[1].sim]
Store(self) == [self EXCEPT !.sim = <<>>]

\* Thread t is between Py_BEGIN_ALLOW_THREADS and Py_END_ALLOW_THREADS
InKernel(t) == threads[t].call.pc = "run"
\* The other threads that are
Others(t) == {u \in ThreadIds \ {t} : InKernel(u)}

\* Thread t can make a call
CanCall(t) == ~InKernel(t) /\ threads[t].n < MaxThreadCalls

\* The call made by t, and what it means for the threads inside msp_run
Called(t, self, touches, read) ==
    [u \in ThreadIds |->
       IF u = t
       THEN [call |-> Store(self), n |-> threads[t].n + 1,
             entry |-> IF self.pc = "run" THEN simulators[1].sim ELSE <<>>,
             raced |-> self.pc = "run" /\ Others(t) # {},
             during |-> Others(t), read |-> read]
       ELSE [threads[u] EXCEPT !.raced = @ \/ (InKernel(u) /\ touches)]]

HInit ==
    /\ \E k \in DOMAIN ThreadSimulations :
         /\ generators = [g \in {1} |-> RandomGenerator_init(1)]
         /\ simulators = [i \in {1} |->
              Simulator_init(Args(ThreadSimulations[k], 1),
                             [g \in {1} |-> RandomGenerator_init(1)])]
    /\ threads = [t \in ThreadIds |->
                    [call |-> Store(Simulator_new), n |-> 0, entry |-> <<>>,
                     raced |-> FALSE, during |-> {}, read |-> <<>>]]
    /\ driver = [op |-> "none", arg |-> 0, who |-> 1, n |-> 0, resets |-> 0]
    /\ signal = [pending |-> FALSE, n |-> 0]
    /\ TIdle
    /\ GslIdle

\* Thread t calls run(end_time): up to the first msp_run call
ThreadRun(t, end_time) ==
    /\ CanCall(t)
    /\ threads' = Called(t, Simulator_run_begin(View(t), end_time),
                         Simulator_run_begin(View(t), end_time).pc = "run", <<>>)
    /\ UNCHANGED <<simulators, generators, driver, signal, gsl, tvars>>

\* msp_run returns in thread t, and run goes on to its next msp_run call or
\* returns. A kernel that another call touched meanwhile is a data race:
\* msp_run may have worked on what it found at its entry or on what the
\* other call left
ThreadLeaveKernel(t) ==
    /\ InKernel(t)
    /\ \E start \in (IF threads[t].raced THEN {threads[t].entry, simulators[1].sim}
                     ELSE {simulators[1].sim}) :
         LET r == Simulator_run_chunk([threads[t].call EXCEPT !.sim = start],
                                      generators[1].rng[1], FALSE)
         IN  /\ simulators' = [simulators EXCEPT ![1].sim = r.self.sim]
             /\ generators' = [generators EXCEPT ![1].rng = <<r.rng>>]
             /\ threads' = [threads EXCEPT ![t] =
                   [@ EXCEPT !.call = Store(r.self),
                             !.entry = IF r.self.pc = "run" THEN r.self.sim ELSE <<>>,
                             !.raced = r.self.pc = "run" /\ Others(t) # {}]]
    /\ UNCHANGED <<driver, signal, gsl, tvars>>

\* Thread t calls reset()
ThreadReset(t) ==
    /\ CanCall(t)
    /\ simulators' = [simulators EXCEPT ![1].sim = Simulator_reset(View(t)).sim]
    /\ threads' = Called(t, Simulator_reset(View(t)), TRUE, <<>>)
    /\ UNCHANGED <<generators, driver, signal, gsl, tvars>>

\* The clock values a read can see: the clock, and with a thread inside
\* msp_run every value that call gives it
TimesSeen(t) ==
    {Simulator_get_time(View(t))} \cup
    UNION {LET r == msp_run(simulators[1].sim[1], generators[1].rng[1],
                            threads[u].call.end_time, chunk)
           IN  {r.msp.iterations[k].time_after : k \in DOMAIN r.msp.iterations}
           : u \in Others(t)}

\* Thread t calls get_time()
ThreadGetTime(t) ==
    /\ CanCall(t)
    /\ \E time \in TimesSeen(t) :
         threads' = Called(t, [View(t) EXCEPT !.op = "get_time", !.ret = "float"],
                           FALSE, <<time>>)
    /\ UNCHANGED <<simulators, generators, driver, signal, gsl, tvars>>

HNext ==
    \/ \E t \in ThreadIds, end_time \in EndTimes : ThreadRun(t, end_time)
    \/ \E t \in ThreadIds : ThreadLeaveKernel(t)
    \/ \E t \in ThreadIds : ThreadReset(t)
    \/ \E t \in ThreadIds : ThreadGetTime(t)

SpecThreads == HInit /\ [][HNext]_vars

\* C11: no call on a Simulator (a run, a reset, a getter) is made while a
\* run call of another thread is executing the kernel of that Simulator.
C11_KernelOwnsState == \A t \in ThreadIds : threads[t].during = {}

(***************************************************************************)
(* Construction. Simulators are built from arguments of every kind, valid  *)
(* and not; driver.arg keeps the arguments of the last construction.       *)
(***************************************************************************)

\* Sample lists: population ids and times in and out of range
SamplePopulations == {-1, 0, 1, 2}
SampleTimes == {-1, 0}
SampleLists ==
    {<<Sample(p1, t1), Sample(p2, t2)>> :
       p1 \in SamplePopulations, p2 \in SamplePopulations,
       t1 \in SampleTimes, t2 \in SampleTimes}

\* Arguments with these samples: one population (no population
\* configuration given) or two
SampleArgs ==
    {[OnePopulation EXCEPT !.samples = l] : l \in SampleLists}
    \cup {[Apart EXCEPT !.samples = l] : l \in SampleLists}

\* Migration matrices: every matrix of four rates, negative ones included,
\* and lists of other lengths
Rates == {-1, 0, 1}
MatrixLists ==
    {<<a, b, c, d>> : a \in Rates, b \in Rates, c \in Rates, d \in Rates}
    \cup {<<>>, <<0>>, <<0, 1, 1>>, <<0, -1, 0>>, <<0, 1, 1, 0, 0>>}

\* Arguments with these matrices, for two populations
MatrixArgs == {[Apart EXCEPT !.migration_matrix = m] : m \in MatrixLists}

\* Demographic events of every kind, with times, types and parameters the
\* wrapper or the kernel refuses among them
SimpleBottleneck(time, population, proportion) ==
    [id |-> 0, type |-> "simple_bottleneck", time |-> time,
     population |-> population, proportion |-> proportion]
InstantaneousBottleneck(time, population, strength) ==
    [id |-> 0, type |-> "instantaneous_bottleneck", time |-> time,
     population |-> population, strength |-> strength]
Typed(type, time) == [id |-> 0, type |-> type, time |-> time]
EventPool ==
    {MassMigration(0, 1, 0, 1), MassMigration(0, 1, 0, 0),
     MigrationRateChange(0, 1, 1, 1), MigrationRateChange(0, 1, 1, -1),
     [id |-> 0, type |-> "population_parameters_change", time |-> 1,
      population |-> -1, growth_rate |-> 1],
     [id |-> 0, type |-> "population_parameters_change", time |-> 1,
      population |-> 2, initial_size |-> 1],
     SimpleBottleneck(1, 0, 1), SimpleBottleneck(-1, 0, 1), SimpleBottleneck(1, 0, 2),
     InstantaneousBottleneck(1, 1, 1), InstantaneousBottleneck(1, 1, -1),
     Typed("census_event", 1), Typed("census_event", -1),
     Typed("bottleneck", 1), Typed("", -1)}

\* The events numbered by their place in the list
Numbered(events) == [k \in DOMAIN events |-> [events[k] EXCEPT !.id = k]]

EventLists ==
    {Numbered(<<e>>) : e \in EventPool}
    \cup {Numbered(<<e, f>>) : e \in EventPool, f \in EventPool}

EventArgs ==
    {[key \in (DOMAIN Apart) \cup {"demographic_events"} |->
        IF key = "demographic_events" THEN l ELSE Apart[key]] : l \in EventLists}

\* Pedigrees of two individuals with two parents each; the other arrays
\* have one, two or three entries. Also None, an object that is no
\* dictionary, and a pedigree without its parents.
Entries(n) == [j \in 1..n |-> 0]
Lengths == {1, 2, 3}
Pedigrees ==
    {PyDict([individual |-> PyArray(NPY_INT32, Entries(a)),
             parents |-> PyArray2D(NPY_INT32, <<Entries(2), Entries(2)>>, 2),
             time |-> PyArray(NPY_FLOAT64, Entries(b)),
             is_sample |-> PyArray(NPY_UINT32, Entries(c))]) :
       a \in Lengths, b \in Lengths, c \in Lengths}
    \cup {Py_None, PyBad,
          PyDict([individual |-> PyArray(NPY_INT32, Entries(2)),
                  time |-> PyArray(NPY_FLOAT64, Entries(2)),
                  is_sample |-> PyArray(NPY_UINT32, Entries(2))]),
          PyDict([individual |-> PyArray(NPY_INT32, Entries(2)),
                  parents |-> PyArray(NPY_INT32, Entries(2)),
                  time |-> PyArray(NPY_FLOAT64, Entries(2)),
                  is_sample |-> PyArray(NPY_UINT32, Entries(2))])}

\* Arguments with a pedigree: under the default model, under hudson, dtwf
\* and under wf_ped
PedigreeModels == {[name |-> name, reference_size |-> 1] : name \in {"hudson", "dtwf", "wf_ped"}}
WithPedigree(args, pedigree) ==
    [key \in (DOMAIN args) \cup {"pedigree"} |->
       IF key = "pedigree" THEN pedigree ELSE args[key]]
PedigreeArgs ==
    {WithPedigree(OnePopulation, p) : p \in Pedigrees}
    \cup {WithPedigree([key \in (DOMAIN OnePopulation) \cup {"model"} |->
                          IF key = "model" THEN m ELSE OnePopulation[key]], p) :
            m \in PedigreeModels, p \in Pedigrees}

InitArgs == SampleArgs \cup MatrixArgs \cup EventArgs \cup PedigreeArgs

\* Entry j (counted from 1) of a flattened matrix of P x P rates is on
\* the diagonal
OnDiagonal(j, P) == (j - 1) \div P = (j - 1) % P

\* The arguments with every diagonal entry of the migration matrix
\* replaced by `rate`
Twin(args, rate) ==
    IF "migration_matrix" \notin DOMAIN args
       \/ "population_configuration" \notin DOMAIN args THEN args
    ELSE IF args.population_configuration = <<>> THEN args
    ELSE [args EXCEPT !.migration_matrix =
            [j \in DOMAIN args.migration_matrix |->
               IF OnDiagonal(j, Len(args.population_configuration)) THEN rate
               ELSE args.migration_matrix[j]]]

\* No simulator built yet
CInit ==
    /\ generators = [g \in SimIds |-> RandomGenerator_init(1)]
    /\ simulators = <<>>
    /\ driver = [op |-> "none", arg |-> <<>>, twin |-> <<>>]
    /\ signal = [pending |-> FALSE, n |-> 0]
    /\ TIdle
    /\ MIdle

\* Simulator(**args) is called, and once more with another diagonal of the
\* migration matrix
Construct(args, rate) ==
    /\ driver.op = "none"
    /\ simulators' = <<Simulator_init(Args(args, 1), generators),
                       Simulator_init(Args(Twin(args, rate), 2), generators)>>
    /\ driver' = [op |-> "init", arg |-> args, twin |-> Twin(args, rate)]
    /\ UNCHANGED <<generators, signal, tvars, mvars>>

CNext ==
    \/ \E args \in InitArgs, rate \in Rates : Construct(args, rate)

SpecInit == CInit /\ [][CNext]_vars

\* The number of populations the last construction configured
NumPopulationsGiven ==
    IF "population_configuration" \in DOMAIN driver.arg
    THEN Len(driver.arg.population_configuration) ELSE 1

\* Some sample of the last construction has a negative population id, a
\* population id that is not below the number of populations, or a
\* negative time
BadSample ==
    \E j \in DOMAIN driver.arg.samples :
      \/ driver.arg.samples[j].population < 0
      \/ driver.arg.samples[j].population >= NumPopulationsGiven
      \/ driver.arg.samples[j].time < 0

\* C12: a construction with a sample of negative population id, of a
\* population id not below the number of configured populations (1 without
\* a population configuration), or of negative time, raises ValueError and
\* allocates no kernel.
C12_BadSamplesRejected ==
    (driver.op = "init" /\ BadSample) =>
      \A i \in DOMAIN simulators :
        simulators[i].ret = "ValueError" /\ IsNull(simulators[i].sim)

\* A construction rejected for its second sample alone, whose population
\* id equals the number of populations
C12_Witness ==
    /\ driver.op = "init"
    /\ driver.arg.samples[1] = Sample(0, 0)
    /\ driver.arg.samples[2].population = NumPopulationsGiven
    /\ driver.arg.samples[2].time = 0
    /\ simulators[1].ret = "ValueError"

\* The last construction was given a migration matrix
MatrixGiven == driver.op = "init" /\ "migration_matrix" \in DOMAIN driver.arg

\* Its matrix has not num_populations squared entries, or a negative one
BadMatrix ==
    \/ Len(driver.arg.migration_matrix) # NumPopulationsGiven * NumPopulationsGiven
    \/ \E j \in DOMAIN driver.arg.migration_matrix : driver.arg.migration_matrix[j] < 0

\* The matrix the kernel holds when none has been set
DefaultMatrix(msp) == [j \in 1..(msp.num_populations * msp.num_populations) |-> 0]

\* C13: a construction with a migration matrix whose length is not
\* num_populations squared, or with a negative rate in it, raises ValueError
\* and the kernel's migration matrix is never set.
C13_BadMatrixRejected ==
    (MatrixGiven /\ BadMatrix) =>
      /\ simulators[1].ret = "ValueError"
      /\ simulators[1].sim[1].initial_migration_matrix
           = DefaultMatrix(simulators[1].sim[1])

\* A matrix of the right length rejected for one negative rate off the
\* diagonal
C13_Witness ==
    /\ MatrixGiven
    /\ driver.arg.migration_matrix = <<0, 1, -1, 0>>
    /\ simulators[1].ret = "ValueError"

\* The rates between distinct populations the kernel holds
MigrationRates(self) ==
    LET m == self.sim[1].initial_migration_matrix
    IN  [j \in {k \in DOMAIN m : ~OnDiagonal(k, self.sim[1].num_populations)} |-> m[j]]

Accepted(self) == self.ret = "None"

\* C14: two constructions whose migration matrices differ only on the
\* diagonal are both accepted or both rejected, and when accepted hold the
\* same rates between distinct populations.
C14_DiagonalIgnored ==
    MatrixGiven =>
      /\ Accepted(simulators[1]) <=> Accepted(simulators[2])
      /\ (Accepted(simulators[1]) /\ Accepted(simulators[2])) =>
           MigrationRates(simulators[1]) = MigrationRates(simulators[2])

\* The last construction was given demographic events
EventsGiven == driver.op = "init" /\ "demographic_events" \in DOMAIN driver.arg

\* An event the wrapper refuses: a negative time or an unknown type
BadTimeOrType(item) == item.time < 0 \/ item.type \notin EventTypes

\* An event of a known type and time with a parameter outside its domain:
\* a population or a matrix index that does not exist, a proportion
\* outside [0, 1], a negative rate or strength, equal source and
\* destination
BadParameter(item) ==
    LET P == NumPopulationsGiven
    IN  CASE item.type = "mass_migration" ->
               item.source = item.dest \/ item.proportion < 0 \/ item.proportion > 1
          [] item.type = "migration_rate_change" -> item.migration_rate < 0
          [] item.type = "population_parameters_change" -> item.population >= P
          [] item.type = "simple_bottleneck" -> item.proportion < 0 \/ item.proportion > 1
          [] item.type = "instantaneous_bottleneck" -> item.strength < 0
          [] OTHER -> FALSE

BadEvent(item) == BadTimeOrType(item) \/ BadParameter(item)

\* The places of the given list that hold an event that is refused
BadEvents == {k \in DOMAIN driver.arg.demographic_events :
                BadEvent(driver.arg.demographic_events[k])}
FirstBadEvent == CHOOSE k \in BadEvents : \A l \in BadEvents : k <= l

\* C19: a construction is accepted only when every demographic event has a
\* time that is not negative and one of the six known types; when the first
\* event that is refused has a negative time or an unknown type ValueError
\* is raised, and when it is an event the kernel refuses InputError is
\* raised and its message names the place of that event, counted from 0.
C19_EventsChecked ==
    EventsGiven =>
      /\ Accepted(simulators[1]) <=> BadEvents = {}
      /\ BadEvents # {} =>
           IF BadTimeOrType(driver.arg.demographic_events[FirstBadEvent])
           THEN simulators[1].ret = "ValueError"
           ELSE /\ simulators[1].ret = "InputError"
                /\ simulators[1].message = <<"demographic_events", FirstBadEvent - 1>>

\* A bottleneck is queued and the event behind it, whose strength is
\* negative, is refused by the kernel: the message names place 1
C19_Witness ==
    /\ EventsGiven
    /\ Len(driver.arg.demographic_events) = 2
    /\ driver.arg.demographic_events[1].type = "simple_bottleneck"
    /\ driver.arg.demographic_events[2].type = "instantaneous_bottleneck"
    /\ simulators[1].ret = "InputError"
    /\ simulators[1].message = <<"demographic_events", 1>>
    /\ Len(simulators[1].sim[1].demographic_events) = 1

\* The last construction was given a pedigree that is not None
PedigreeGiven ==
    /\ driver.op = "init"
    /\ "pedigree" \in DOMAIN driver.arg
    /\ driver.arg.pedigree.k # "none"

\* The model it was given is wf_ped
UnderWfPed == "model" \in DOMAIN driver.arg /\ driver.arg.model.name = "wf_ped"

\* The pedigree the kernel holds
Loaded(self) == self.sim[1].pedigree

\* The four arrays of the pedigree are there, and individual, time and
\* is_sample have as many entries as parents has rows
EqualLengths ==
    LET d == driver.arg.pedigree.v
    IN  /\ {"individual", "parents", "time", "is_sample"} \subseteq DOMAIN d
        /\ Len(d.individual.data) = Shape0(d.parents)
        /\ Len(d.time.data) = Shape0(d.parents)
        /\ Len(d.is_sample.data) = Shape0(d.parents)

\* C18: a construction with a pedigree that is not None, under a model that
\* is not wf_ped, raises ValueError or TypeError and the kernel is given no
\* pedigree; under wf_ped it is accepted only when individual, time and
\* is_sample have as many entries as parents has rows, and the kernel is
\* given no pedigree otherwise.
C18_PedigreeChecked ==
    PedigreeGiven =>
      /\ ~UnderWfPed =>
           simulators[1].ret \in {"ValueError", "TypeError"} /\ Loaded(simulators[1]) = <<>>
      /\ Accepted(simulators[1]) => UnderWfPed /\ EqualLengths
      /\ (driver.arg.pedigree.k = "dict" /\ ~EqualLengths) =>
           ~Accepted(simulators[1]) /\ Loaded(simulators[1]) = <<>>

\* A pedigree whose arrays have equal lengths is refused under dtwf
C18_Witness ==
    /\ PedigreeGiven
    /\ driver.arg.pedigree.k = "dict"
    /\ EqualLengths
    /\ "model" \in DOMAIN driver.arg
    /\ driver.arg.model.name = "dtwf"
    /\ simulators[1].ret = "ValueError"
    /\ Loaded(simulators[1]) = <<>>

(***************************************************************************)
(* Simulation models. A simulator is built with a model or without one,    *)
(* then set_model is called on it; driver.before keeps what get_model      *)
(* returned before the last call.                                          *)
(***************************************************************************)

\* Bound on the calls of set_model
MaxModelCalls == 2

\* Model dictionaries: the eight names and others, reference sizes and
\* parameters inside and outside their ranges, missing keys
Named(name, reference_size) == [name |-> name, reference_size |-> reference_size]
PlainModels ==
    {Named(name, size) :
       name \in {"hudson", "smc", "smc_prime", "dtwf", "wf_ped", "kingman", ""},
       size \in {-1, 0, 1, 2}}
DiracModels ==
    {[name |-> "dirac", reference_size |-> size, psi |-> psi, c |-> c] :
       size \in {0, 1}, psi \in {-1, 0, 1, ONE, 3}, c \in {-1, 0, 1}}
BetaModels ==
    {[name |-> "beta", reference_size |-> 1, alpha |-> alpha,
      truncation_point |-> truncation_point] :
       alpha \in {1, ONE, 3, 2 * ONE}, truncation_point \in {0, 1, ONE, 3}}
OtherModels ==
    {[name |-> "sweep_genic_selection", reference_size |-> 1, position |-> 0,
      start_frequency |-> 1, end_frequency |-> 1, alpha |-> 1, dt |-> 1],
     [name |-> "sweep_genic_selection", reference_size |-> 1],
     [name |-> "dirac", reference_size |-> 1, c |-> 1],
     [name |-> "beta", reference_size |-> 1, alpha |-> 3],
     [name |-> "hudson"], [reference_size |-> 1]}
ModelDicts == PlainModels \cup DiracModels \cup BetaModels \cup OtherModels

\* The arguments of a simulator with a model
WithModel(args, py_model) ==
    [key \in (DOMAIN args) \cup {"model"} |->
       IF key = "model" THEN py_model ELSE args[key]]
ModelArgs == {OnePopulation} \cup {WithModel(OnePopulation, m) : m \in ModelDicts}

\* Simulator(**args) has been called
ModelInit ==
    /\ generators = [g \in SimIds |-> RandomGenerator_init(1)]
    /\ \E args \in ModelArgs :
         /\ simulators = <<Simulator_init(Args(args, 1), generators)>>
         /\ driver = [op |-> "init", arg |-> args, before |-> <<>>, n |-> 0]
    /\ signal = [pending |-> FALSE, n |-> 0]
    /\ TIdle
    /\ MIdle

\* sim.set_model(py_model), on a simulator whose construction returned
SetModel(i, py_model) ==
    /\ driver.n < MaxModelCalls
    /\ driver.op = "init" => Accepted(simulators[i])
    /\ simulators' = [simulators EXCEPT ![i] = Simulator_set_model(@, py_model)]
    /\ driver' = [op |-> "set_model", arg |-> py_model,
                  before |-> Simulator_get_model(simulators[i]), n |-> driver.n + 1]
    /\ UNCHANGED <<generators, signal, tvars, mvars>>

ModelNext ==
    \/ \E py_model \in ModelDicts : SetModel(1, py_model)

SpecModel == ModelInit /\ [][ModelNext]_vars

ModelNames ==
    {"hudson", "smc", "smc_prime", "dtwf", "wf_ped", "dirac", "beta",
     "sweep_genic_selection"}

\* The model dictionary of the last call: of set_model, or of the constructor
GivenModel == IF driver.op = "init" THEN driver.arg.model ELSE driver.arg
ModelGiven == driver.op = "set_model" \/ "model" \in DOMAIN driver.arg

\* The model is the one found before the last call: what get_model returned
\* then, or the kernel's own model after a construction
ModelUnchanged ==
    IF driver.op = "set_model" THEN Simulator_get_model(simulators[1]) = driver.before
    ELSE msp_get_model(simulators[1].sim[1])
           = [type |-> "hudson", reference_size |-> 1, params |-> <<>>]

\* C15: set_model and the constructor accept a model only when its name is
\* one of the eight; given another name they raise ValueError and get_model
\* returns what it returned before.
C15_UnknownModelRejected ==
    (ModelGiven /\ "name" \in DOMAIN GivenModel) =>
      /\ Accepted(simulators[1]) => GivenModel.name \in ModelNames
      /\ GivenModel.name \notin ModelNames =>
           simulators[1].ret = "ValueError" /\ ModelUnchanged

\* set_model with an unknown name after a dirac model was set
C15_Witness ==
    /\ driver.op = "set_model"
    /\ driver.arg = Named("kingman", 2)
    /\ driver.before.name = "dirac"
    /\ simulators[1].ret = "ValueError"

\* The last model has a reference size that is not positive, or is a dirac
\* model with psi outside (0, 1) or a negative c
BadReferenceSize ==
    "reference_size" \in DOMAIN GivenModel /\ GivenModel.reference_size <= 0
BadDirac ==
    /\ DOMAIN GivenModel = {"name", "reference_size", "psi", "c"}
    /\ GivenModel.name = "dirac"
    /\ GivenModel.psi <= 0 \/ GivenModel.psi >= ONE \/ GivenModel.c < 0

\* C16: set_model with a reference size that is not positive, or with a
\* dirac model whose psi is not strictly between 0 and 1 or whose c is
\* negative, raises ValueError and get_model returns what it returned before.
C16_BadParametersRejected ==
    (ModelGiven /\ (BadReferenceSize \/ BadDirac)) =>
      simulators[1].ret = "ValueError" /\ ModelUnchanged

\* set_model with a dirac model of psi = 0 on a simulator whose model is smc
C16_Witness ==
    /\ driver.op = "set_model"
    /\ driver.arg = [name |-> "dirac", reference_size |-> 1, psi |-> 0, c |-> 1]
    /\ driver.before = Named("smc", 2)
    /\ simulators[1].ret = "ValueError"

BadBeta ==
    /\ DOMAIN GivenModel = {"name", "reference_size", "alpha", "truncation_point"}
    /\ GivenModel.name = "beta"
    /\ \/ GivenModel.alpha <= ONE \/ GivenModel.alpha >= 2 * ONE
       \/ GivenModel.truncation_point <= 0 \/ GivenModel.truncation_point > ONE

MaxHandlerCalls == 6

\* gsl_set_error_handler: the new handler is installed, the one before it
\* returned
gsl_set_error_handler(g, new_handler) ==
    [previous |-> g.handler, gsl |-> [g EXCEPT !.handler = new_handler]]

gsl_set_error_handler_off(g) == gsl_set_error_handler(g, "off")

msprime_restore_gsl_error_handler(g) ==
    gsl_set_error_handler(g, g.old_gsl_error_handler).gsl

msprime_unset_gsl_error_handler(g) ==
    [gsl_set_error_handler_off(g).gsl EXCEPT
       !.old_gsl_error_handler = gsl_set_error_handler_off(g).previous]

\* The module has been imported into a process with GSL's own handler or
\* with a handler of the host
GInit ==
    /\ \E found \in {"NULL", "host"} :
         gsl = [handler |-> found, old_gsl_error_handler |-> "NULL",
                found |-> found, calls |-> <<>>]
    /\ threads = <<>>
    /\ TIdle
    /\ SIdle

UnsetHandler ==
    /\ Len(gsl.calls) < MaxHandlerCalls
    /\ gsl' = [msprime_unset_gsl_error_handler(gsl) EXCEPT !.calls = Append(@, "unset")]
    /\ UNCHANGED <<threads, tvars, svars>>

RestoreHandler ==
    /\ Len(gsl.calls) < MaxHandlerCalls
    /\ gsl' = [msprime_restore_gsl_error_handler(gsl) EXCEPT !.calls = Append(@, "restore")]
    /\ UNCHANGED <<threads, tvars, svars>>

GNext ==
    \/ UnsetHandler
    \/ RestoreHandler

SpecModule == GInit /\ [][GNext]_vars

\* C20: after calls of unset_gsl_error_handler and restore_gsl_error_handler
\* of which the last is restore_gsl_error_handler, the handler installed is
\* the one found when the module was imported.
C20_HandlerLeftAsFound ==
    (gsl.calls # <<>> /\ gsl.calls[Len(gsl.calls)] = "restore") =>
      gsl.handler = gsl.found

(***************************************************************************)
(* Further properties of the calls made on the simulators (SpecSim).       *)
(***************************************************************************)

\* The iterations of the event loop the last kernel call of simulator i made
IterationsOfCall(i) == Kernel(i).iterations

\* run_event has returned True or False on simulator i
RunEventReturned(i) ==
    simulators[i].op = "run_event" /\ simulators[i].ret \in {"True", "False"}

RunArguments == {-1, 0, 2}

RNext ==
    \/ \E i \in SimIds, end_time \in RunArguments : Run(i, end_time)
    \/ \E i \in SimIds : RunChunk(i)

SpecRun == SInit /\ [][RNext]_vars

\* C22: run requires end_time to be greater than 0: for every end_time that
\* is not greater than 0 it raises ValueError, runs no event and leaves the
\* simulator's state as it was.
C22_NonPositiveEndTimeRefused ==
    [][\A i \in SimIds, end_time \in RunArguments :
         (end_time <= 0 /\ Run(i, end_time) /\ Simulator_check_sim(simulators[i]) = 0)
           => /\ simulators'[i].ret = "ValueError"
              /\ simulators'[i].pc = "idle"
              /\ simulators'[i].sim = simulators[i].sim]_vars

(***************************************************************************)
(* The chains of the extant lineages under common-ancestor and             *)
(* recombination events (SpecChains).  `driver` holds the number of events *)
(* the kernel has applied and what the last get_ancestors returned.        *)
(***************************************************************************)

\* Bound on the events applied to one kernel
MaxChainEvents == 3

ChainsInit ==
    /\ \E k \in {1, 2} :
         /\ generators = [g \in {1} |-> RandomGenerator_init(1)]
         /\ simulators = [i \in {1} |->
              Simulator_init(Args(Simulations[k], i),
                             [g \in {1} |-> RandomGenerator_init(1)])]
    /\ driver = [op |-> "none", n |-> 0, ret |-> [error |-> "", value |-> <<>>]]
    /\ signal = [pending |-> FALSE, n |-> 0]
    /\ TIdle
    /\ MIdle

\* The kernel of simulator i applies a common-ancestor event
CommonAncestorEvent(i, p, u) ==
    /\ driver.n < MaxChainEvents
    /\ p \in CoalescencePopulations(simulators[i].sim[1])
    /\ simulators' = [simulators EXCEPT ![i].sim =
                        <<msp_common_ancestor_event(simulators[i].sim[1], p, u)>>]
    /\ driver' = [driver EXCEPT !.op = "common_ancestor", !.n = @ + 1]
    /\ UNCHANGED <<generators, signal, tvars, mvars>>

\* The kernel of simulator i applies a recombination event
RecombinationEvent(i, j, x) ==
    /\ driver.n < MaxChainEvents
    /\ j \in DOMAIN simulators[i].sim[1].lineages
    /\ x \in Breakpoints(simulators[i].sim[1].lineages[j].segments)
    /\ simulators' = [simulators EXCEPT ![i].sim =
                        <<msp_recombination_event(simulators[i].sim[1], j, x)>>]
    /\ driver' = [driver EXCEPT !.op = "recombination", !.n = @ + 1]
    /\ UNCHANGED <<generators, signal, tvars, mvars>>

\* simulators[i].get_ancestors()
GetAncestors(i) ==
    /\ driver' = [driver EXCEPT !.op = "get_ancestors",
                                !.ret = Simulator_get_ancestors(simulators[i])]
    /\ UNCHANGED <<generators, simulators, signal, tvars, mvars>>

ChainsNext ==
    \/ \E p \in 0..1, u \in 0..(2 + MaxChainEvents) : CommonAncestorEvent(1, p, u)
    \/ \E j \in 1..(3 + MaxChainEvents), x \in 1..(SequenceLength - 1) :
          RecombinationEvent(1, j, x)
    \/ GetAncestors(1)

SpecChains == ChainsInit /\ [][ChainsNext]_vars

\* A chain of segments is well formed: it is not empty, every segment lies
\* in the sequence with left < right, and no segment starts before its
\* predecessor has ended
WellFormedChain(chain) ==
    /\ Len(chain) >= 1
    /\ \A k \in DOMAIN chain :
         0 <= chain[k].left /\ chain[k].left < chain[k].right
                            /\ chain[k].right <= SequenceLength
    /\ \A k \in 1..(Len(chain) - 1) : chain[k].right <= chain[k + 1].left

\* The same of a list of tuples (left, right, value, population_id)
WellFormedList(l) ==
    /\ Len(l) >= 1
    /\ \A k \in DOMAIN l : 0 <= l[k][1] /\ l[k][1] < l[k][2] /\ l[k][2] <= SequenceLength
    /\ \A k \in 1..(Len(l) - 1) : l[k][2] <= l[k + 1][1]

SizeChange(time, population) ==
    [type |-> "population_parameters_change", time |-> time, population |-> population,
     initial_size |-> 3]
GrowthRateChange(time, population) ==
    [type |-> "population_parameters_change", time |-> time, population |-> population,
     growth_rate |-> -2]
SizeAndGrowthRateChange(time, population) ==
    [type |-> "population_parameters_change", time |-> time, population |-> population,
     initial_size |-> 3, growth_rate |-> 0]
ParameterChanges(time) ==
    UNION {{SizeChange(time, p), GrowthRateChange(time, p), SizeAndGrowthRateChange(time, p)} :
             p \in {-1, 0, 1}}

\* Lists of a change at time 1 and a change at time 2
ParameterChangeLists ==
    {<<[id |-> 1] @@ e1, [id |-> 2] @@ e2>> :
       e1 \in ParameterChanges(1), e2 \in ParameterChanges(2)}

\* Two populations with migration both ways; population 0 grows backwards
\* in time, population 1 is of constant size
Growing(events) ==
    [samples |-> <<Sample(0, 0), Sample(1, 0)>>,
     population_configuration |-> <<[initial_size |-> 1, growth_rate |-> -1],
                                    [initial_size |-> 2, growth_rate |-> 0]>>,
     migration_matrix |-> <<0, 1, 1, 0>>,
     demographic_events |-> events,
     store_migrations |-> FALSE, start_time |-> -1]

DInit ==
    /\ \E events \in ParameterChangeLists, seed \in Seeds :
         /\ generators = [g \in SimIds |-> RandomGenerator_init(seed)]
         /\ simulators = [i \in SimIds |->
              Simulator_init(Args(Growing(events), i),
                             [g \in SimIds |-> RandomGenerator_init(seed)])]
         /\ driver = [op |-> "none", arg |-> 0, who |-> 1, n |-> 0, resets |-> 0,
                      events |-> events]
    /\ signal = [pending |-> FALSE, n |-> 0]
    /\ TIdle
    /\ MIdle

DNext == \E i \in SimIds : RunEvent(i)

SpecDemography == DInit /\ [][DNext]_vars

\* The step applies the next demographic event of kernel i
AppliesEvent(i) ==
    /\ Simulator_check_sim(simulators[i]) = 0
    /\ Len(simulators'[i].sim[1].applied) = Len(Kernel(i).applied) + 1

\* The caller's item of the demographic event that kernel msp applied last
LastApplied(msp) == driver.events[msp.applied[Len(msp.applied)]]

\* Population p of kernel `after` is what item makes of population p of
\* kernel `before`: what the item gives is set, a growth rate that is not
\* given is kept, and with no size given the size at the item's time is kept
ChangedAsGiven(before, after, item, p) ==
    /\ IF "growth_rate" \in DOMAIN item
       THEN after.populations[p + 1].growth_rate = item.growth_rate
       ELSE after.populations[p + 1].growth_rate = before.populations[p + 1].growth_rate
    /\ IF "initial_size" \in DOMAIN item
       THEN msp_compute_population_size(after, p, item.time).size = item.initial_size
       ELSE msp_compute_population_size(after, p, item.time).size
              = msp_compute_population_size(before, p, item.time).size

\* C24: a population_parameters_change that leaves out initial_size or
\* growth_rate changes only what it gives: when it is applied, a growth rate
\* that is left out stays as it was, with the size left out the size of the
\* population at the time of the event stays as it was, and no other
\* population is changed.
C24_OmittedParametersKept ==
    [][\A i \in SimIds :
         AppliesEvent(i) =>
           \A p \in 0..(Kernel(i).num_populations - 1) :
             IF LastApplied(simulators'[i].sim[1]).population \in {-1, p}
             THEN ChangedAsGiven(Kernel(i), simulators'[i].sim[1],
                                 LastApplied(simulators'[i].sim[1]), p)
             ELSE simulators'[i].sim[1].populations[p + 1] = Kernel(i).populations[p + 1]]_vars

\* The event at time 1 gave population 0, which had grown from 1 to 2, a
\* growth rate and no size, and has been applied: the size at time 1 is 2
C24_Witness ==
    /\ driver.op = "run_event"
    /\ Kernel(1).applied = <<1>>
    /\ driver.events[1].population = 0
    /\ "initial_size" \notin DOMAIN driver.events[1]
    /\ Kernel(1).populations[1] = [initial_size |-> 2, growth_rate |-> -2, start_time |-> 1]
    /\ Kernel(1).populations[2] = [initial_size |-> 2, growth_rate |-> 0, start_time |-> 0]

(***************************************************************************)
(* Objects whose handle may be NULL (SpecHandles): a Simulator, a          *)
(* LightweightTableCollection and an IntervalMap, each as PyType_GenericNew *)
(* leaves it (every field zero) until its __init__ is called.  A method of *)
(* an object gives the name of the exception it raises, "returned" when it *)
(* returns a value, or "undefined" when it reads through a NULL pointer.   *)
(***************************************************************************)

\* An IntervalMap before __init__
IntervalMap_new == [interval_map |-> <<>>, ret |-> ""]

IntervalMap_check_state(self) == IF IsNull(self.interval_map) THEN -1 ELSE 0

\* The kernel's interval map of size entries: the positions start at 0 and
\* increase, no value is negative
interval_map_alloc(size, position, value) ==
    IF size < 2 \/ position[1] # 0
       \/ (\E j \in 1..(size - 1) : position[j] >= position[j + 1])
       \/ (\E j \in 1..size : value[j] < 0)
    THEN [err |-> MSP_ERR_BAD_PARAM_VALUE,
          map |-> [size |-> 0, position |-> <<>>, value |-> <<>>]]
    ELSE [err |-> 0, map |-> [size |-> size, position |-> position, value |-> value]]

\* IntervalMap(position, value)
IntervalMap_init(self, py_position, py_value) ==
    IF Len(py_position) # Len(py_value)
    THEN [self EXCEPT !.interval_map = <<>>, !.ret = "ValueError"]
    ELSE [self EXCEPT
           !.interval_map =
               <<interval_map_alloc(Len(py_position), py_position, py_value).map>>,
           !.ret = IF interval_map_alloc(Len(py_position), py_position, py_value).err # 0
                   THEN "LibraryError" ELSE "None"]

\* The getters of position and value: size entries of the kernel's array
\* are copied, whatever self->interval_map is
IntervalMap_get_position(self) ==
    IF IsNull(self.interval_map) THEN "undefined" ELSE "returned"
IntervalMap_get_value(self) ==
    IF IsNull(self.interval_map) THEN "undefined" ELSE "returned"

\* A LightweightTableCollection object: its pointer to the tables
LightweightTableCollection_new == [tables |-> <<>>]

LightweightTableCollection_check_state(self) == IF IsNull(self.tables) THEN -1 ELSE 0

\* asdict and fromdict as methods of the object
LightweightTableCollection_methods_asdict(self) ==
    IF LightweightTableCollection_check_state(self) # 0 THEN "SystemError"
    ELSE "returned"
LightweightTableCollection_methods_fromdict(self, dict) ==
    IF ~get_table_dict_value(dict, "sequence_length", TRUE).ok
    THEN get_table_dict_value(dict, "sequence_length", TRUE).err
    ELSE IF get_table_dict_value(dict, "sequence_length", TRUE).v.k # "number"
    THEN "TypeError"
    ELSE IF IsNull(self.tables) THEN "undefined"
    ELSE IF LightweightTableCollection_fromdict(self.tables[1], dict).ret # 0
    THEN LightweightTableCollection_fromdict(self.tables[1], dict).err
    ELSE "None"

Simulator_get_num_populations(self) ==
    IF Simulator_check_sim(self) # 0 THEN "SystemError" ELSE "returned"

\* The kernel writes out what has not coalesced; the rows are not modelled
msp_finalise_tables(msp) == 0

Simulator_finalise_tables(self) ==
    IF IsNull(self.sim) THEN "undefined"
    ELSE IF msp_finalise_tables(self.sim[1]) # 0 THEN "LibraryError"
    ELSE "None"

\* The methods of a Simulator called here
SimulatorMethods == {"get_model", "get_num_populations", "get_ancestors", "finalise_tables"}

Simulator_method(self, name) ==
    CASE name = "get_model" ->
           IF "error" \in DOMAIN Simulator_get_model(self)
           THEN Simulator_get_model(self).error ELSE "returned"
      [] name = "get_num_populations" -> Simulator_get_num_populations(self)
      [] name = "get_ancestors" ->
           IF Simulator_get_ancestors(self).error # ""
           THEN Simulator_get_ancestors(self).error ELSE "returned"
      [] name = "finalise_tables" -> Simulator_finalise_tables(self)

\* What the process can do when a method reads through a NULL pointer: it
\* is killed, or it goes on with whatever it read
Outcomes(result) == IF result = "undefined" THEN {"SIGSEGV", "returned"} ELSE {result}

\* The exceptions of the module
Exceptions == {"SystemError", "ValueError", "TypeError", "LibraryError", "InputError"}

\* The arguments Simulator objects are initialised with
HandleArgs == InitArgs \cup ModelArgs

\* The dictionary handed to fromdict: complete, or without sequence_length
HandleDicts ==
    {Dict1, [key \in (DOMAIN Dict1) \ {"sequence_length"} |-> Dict1[key]]}

\* The arrays handed to IntervalMap: of one length, or not
HandleArrays == {<< <<0, 1>>, <<1, 0>> >>, << <<0, 1>>, <<1>> >>}

HandlesInit ==
    /\ simulators = <<Simulator_new>>
    /\ generators = [g \in SimIds |-> RandomGenerator_init(1)]
    /\ ltc = <<LightweightTableCollection_new>>
    /\ interval_maps = <<IntervalMap_new>>
    /\ driver = [op |-> "none", on |-> "", null |-> FALSE, failed |-> FALSE,
                 outcome |-> ""]
    /\ tlast = [op |-> "init", on |-> 0, src |-> 0, ret |-> 0, err |-> "", viol |-> FALSE, n |-> 0]
    /\ signal = [pending |-> FALSE, n |-> 0]
    /\ MIdle

\* simulators[1].__init__(args)
SimulatorInit(args) ==
    /\ simulators[1].op = "new"
    /\ simulators' = <<Simulator_init(Args(args, 1), generators)>>
    /\ driver' = [op |-> "init", on |-> "Simulator", null |-> FALSE, failed |-> FALSE,
                  outcome |-> Simulator_init(Args(args, 1), generators).ret]
    /\ UNCHANGED <<generators, signal, tvars, mvars>>

\* A method of simulators[1] is called
SimulatorCall(name) ==
    /\ \E outcome \in Outcomes(Simulator_method(simulators[1], name)) :
         driver' = [op |-> name, on |-> "Simulator",
                    null |-> IsNull(simulators[1].sim),
                    failed |-> simulators[1].op = "init" /\ simulators[1].ret # "None",
                    outcome |-> outcome]
    /\ UNCHANGED <<generators, simulators, signal, tvars, mvars>>

\* ltc[1].__init__(sequence_length)
TableCollectionInit ==
    /\ IsNull(ltc[1].tables)
    /\ ltc' = <<[tables |-> <<LightweightTableCollection_init(1)>>]>>
    /\ driver' = [op |-> "init", on |-> "LightweightTableCollection", null |-> FALSE,
                  failed |-> FALSE, outcome |-> "None"]
    /\ UNCHANGED <<tlast, interval_maps, generators, simulators, signal, mvars>>

\* ltc[1].asdict() or ltc[1].fromdict(dict); what fromdict loads is dropped
TableCollectionCall(name, dict) ==
    /\ \E outcome \in Outcomes(IF name = "asdict"
                                THEN LightweightTableCollection_methods_asdict(ltc[1])
                                ELSE LightweightTableCollection_methods_fromdict(ltc[1], dict)) :
         driver' = [op |-> name, on |-> "LightweightTableCollection",
                    null |-> IsNull(ltc[1].tables), failed |-> FALSE, outcome |-> outcome]
    /\ UNCHANGED <<generators, simulators, signal, tvars, mvars>>

\* interval_maps[1].__init__(position, value)
IntervalMapInit(position, value) ==
    /\ interval_maps[1].ret = ""
    /\ interval_maps' = <<IntervalMap_init(interval_maps[1], position, value)>>
    /\ driver' = [op |-> "init", on |-> "IntervalMap", null |-> FALSE, failed |-> FALSE,
                  outcome |-> IntervalMap_init(interval_maps[1], position, value).ret]
    /\ UNCHANGED <<ltc, tlast, generators, simulators, signal, mvars>>

\* interval_maps[1].position or interval_maps[1].value is read
IntervalMapGet(name) ==
    /\ \E outcome \in Outcomes(IF name = "position"
                                THEN IntervalMap_get_position(interval_maps[1])
                                ELSE IntervalMap_get_value(interval_maps[1])) :
         driver' = [op |-> name, on |-> "IntervalMap",
                    null |-> IsNull(interval_maps[1].interval_map), failed |-> FALSE,
                    outcome |-> outcome]
    /\ UNCHANGED <<generators, simulators, signal, tvars, mvars>>

HandlesNext ==
    \/ \E args \in HandleArgs : SimulatorInit(args)
    \/ \E name \in SimulatorMethods : SimulatorCall(name)
    \/ TableCollectionInit
    \/ \E name \in {"asdict", "fromdict"}, dict \in HandleDicts : TableCollectionCall(name, dict)
    \/ \E arrays \in HandleArrays : IntervalMapInit(arrays[1], arrays[2])
    \/ \E name \in {"position", "value"} : IntervalMapGet(name)

SpecHandles == HandlesInit /\ [][HandlesNext]_vars

\* C25: every method and getter of Simulator, LightweightTableCollection
\* and IntervalMap that is called on an object whose handle is NULL raises
\* an exception; none reads through the handle.
C25_NullHandleRaises ==
    (driver.op \notin {"none", "init"} /\ driver.null) => driver.outcome \in Exceptions

\* C26: every method called on a Simulator whose __init__ has failed raises
\* SystemError ('simulator not initialised'), whether the failure came
\* before or after the kernel was allocated.
C26_FailedSimulatorUnusable ==
    (driver.on = "Simulator" /\ driver.op \in SimulatorMethods /\ driver.failed)
      => driver.outcome = "SystemError"

(***************************************************************************)
(* Further properties of the table-collection operations (SpecTables).     *)
(***************************************************************************)

\* The numbers of rows the columns of table tbl imply in the dictionary td
\* of the table: the length of a fixed-width column, the length of an
\* offset column less one
ImpliedNumRows(tbl, td) ==
    {Len(td[table_descs[tbl][i].name].data) :
       i \in {j \in DOMAIN table_descs[tbl] :
                /\ table_descs[tbl][j].len = "num_rows"
                /\ td[table_descs[tbl][j].name].k = "array"}}
    \cup {Len(td[table_descs[tbl][i].name].data) - 1 :
            i \in {j \in DOMAIN table_descs[tbl] :
                     /\ table_descs[tbl][j].len = "num_rows+1"
                     /\ td[table_descs[tbl][j].name].k = "array"}}

\* The tables of the dictionary d (every table a dictionary of arrays)
\* whose columns imply different numbers of rows
InconsistentTables(d) ==
    IF \A tbl \in DOMAIN table_descs :
         /\ tbl \in DOMAIN d /\ d[tbl].k = "dict"
         /\ \A i \in DOMAIN table_descs[tbl] : table_descs[tbl][i].name \in DOMAIN d[tbl].v
         /\ \A c \in DOMAIN d[tbl].v : d[tbl].v[c].k = "array"
    THEN {tbl \in DOMAIN table_descs : Cardinality(ImpliedNumRows(tbl, d[tbl].v)) > 1}
    ELSE {}

\* C27: when two columns of a table of the dictionary imply different
\* numbers of rows, fromdict raises ValueError and appends no row to that
\* table; so too for the metadata_offset column of sites and of mutations.
C27_RowCountsChecked ==
    [][\A c \in CollectionIds, d \in InputDicts :
         (FromDict(c, d) /\ InconsistentTables(d) # {})
           => /\ tlast'.ret # 0
              /\ tlast'.err = "ValueError"
              /\ \A tbl \in InconsistentTables(d) :
                   ltc'[c].tables[tbl] = ltc[c].tables[tbl]]_vars

(***************************************************************************)
(* The arrays asdict has returned, read after later calls (SpecSnapshot).  *)
(* PyArray_SimpleNewFromData makes an array around the memory it is given: *)
(* the arrays of the dictionary are the columns of the collection.         *)
(* `driver` holds the collection asdict was called on and the dictionary   *)
(* as it was when asdict returned.                                         *)
(***************************************************************************)

SnapshotInit ==
    /\ TIdle
    /\ MIdle
    /\ generators = <<>>
    /\ simulators = <<>>
    /\ signal = [pending |-> FALSE, n |-> 0]
    /\ driver = [op |-> "none", on |-> 0, returned |-> <<>>]

\* c.asdict()
AsDict(c) ==
    /\ driver.op = "none"
    /\ driver' = [op |-> "asdict", on |-> c,
                  returned |-> LightweightTableCollection_asdict(ltc[c])]
    /\ UNCHANGED <<generators, simulators, signal, tvars, mvars>>

SnapshotNext ==
    \/ \E c \in CollectionIds, d \in InputDicts : FromDict(c, d)
    \/ \E c \in CollectionIds : AsDict(c)

SpecSnapshot == SnapshotInit /\ [][SnapshotNext]_vars

\* What is read now from an array that asdict made around column col of
\* table tbl of collection c: the entries of the column as far as the column
\* reaches now (its memory is kept by tsk_table_clear and written again by
\* append_columns); behind them, what was there
ReadArray(array, c, tbl, col) ==
    [j \in 1..Len(array.data) |->
       IF j <= Len(ltc[c].tables[tbl].cols[col])
       THEN ltc[c].tables[tbl].cols[col][j] ELSE array.data[j]]

\* C28: the dictionary asdict has returned is a snapshot: calls made later
\* on the same collection do not change what its arrays hold.
C28_AsdictIsSnapshot ==
    driver.op = "asdict" =>
      \A tbl \in DOMAIN table_descs :
        \A col \in DOMAIN driver.returned[tbl].v :
          ReadArray(driver.returned[tbl].v[col], driver.on, tbl, col)
            = driver.returned[tbl].v[col].data

(***************************************************************************)
(* The model read with get_model and set again with set_model              *)
(* (SpecModelRoundTrip).  `driver.before` is the kernel's model before     *)
(* the call.                                                               *)
(***************************************************************************)

\* sim.set_model(sim.get_model())
GetSetModel(i) ==
    /\ driver.n < MaxModelCalls
    /\ driver.op = "init" => Accepted(simulators[i])
    /\ simulators' = [simulators EXCEPT ![i] =
                        Simulator_set_model(@, Simulator_get_model(simulators[i]))]
    /\ driver' = [op |-> "get_set_model", arg |-> Simulator_get_model(simulators[i]),
                  before |-> msp_get_model(simulators[i].sim[1]), n |-> driver.n + 1]
    /\ UNCHANGED <<generators, signal, tvars, mvars>>

ModelRoundTripNext ==
    \/ \E py_model \in ModelDicts : SetModel(1, py_model)
    \/ GetSetModel(1)

SpecModelRoundTrip == ModelInit /\ [][ModelRoundTripNext]_vars

\* C29: for every model that set_model (or the constructor) has accepted,
\* the dictionary get_model returns is accepted by set_model and leaves the
\* model of the simulator, with all its parameters, as it was.
C29_ModelRoundTrip ==
    driver.op = "get_set_model" =>
      /\ simulators[1].ret = "None"
      /\ msp_get_model(Kernel(1)) = driver.before

(***************************************************************************)
(* Construction with and without population_configuration and             *)
(* migration_matrix (SpecPopulations): each keyword is given or left out,  *)
(* the list of populations has none, one or two entries, and the samples   *)
(* lie in the first population, in the first two, or beyond them.          *)
(***************************************************************************)

PopulationLists == {<<>>, <<Population(1)>>, <<Population(1), Population(1)>>}
PopulationSamples ==
    {<<Sample(0, 0), Sample(p, 0)>> : p \in {0, 1, 2}}

\* The keyword arguments `args` and the keyword `key`
Given(args, key, value) ==
    [k \in (DOMAIN args) \cup {key} |-> IF k = key THEN value ELSE args[k]]

PopulationArgs ==
    LET plain == {[OnePopulation EXCEPT !.samples = l] : l \in PopulationSamples}
        configured ==
          {Given(a, "population_configuration", c) : a \in plain, c \in PopulationLists}
    IN  plain \cup configured
        \cup {Given(a, "migration_matrix", m) :
               a \in plain \cup configured, m \in MatrixLists}

PopulationsNext ==
    \/ \E args \in PopulationArgs, rate \in Rates : Construct(args, rate)

SpecPopulations == CInit /\ [][PopulationsNext]_vars

ConfigurationGiven ==
    driver.op = "init" /\ "population_configuration" \in DOMAIN driver.arg

\* C30: construction raises ValueError when population_configuration is
\* given without migration_matrix, when migration_matrix is given without
\* population_configuration, and when population_configuration is an empty
\* list; a simulator built without either has exactly one population.
C30_ConfigurationAndMatrixTogether ==
    driver.op = "init" =>
      /\ ConfigurationGiven /\ ~MatrixGiven => simulators[1].ret = "ValueError"
      /\ MatrixGiven /\ ~ConfigurationGiven => simulators[1].ret = "ValueError"
      /\ ConfigurationGiven /\ driver.arg.population_configuration = <<>>
           => simulators[1].ret = "ValueError"
      /\ ~ConfigurationGiven /\ ~MatrixGiven /\ Accepted(simulators[1])
           => Kernel(1).num_populations = 1

\* A matrix for one population is given without population_configuration,
\* with samples that are valid for the single default population
C30_Witness ==
    /\ MatrixGiven /\ ~ConfigurationGiven
    /\ driver.arg.migration_matrix = <<0>>
    /\ driver.arg.samples = <<Sample(0, 0), Sample(0, 0)>>
    /\ simulators[1].ret = "ValueError"

=============================================================================
